---- MODULE Spec2Model ----
(***************************************************************************)
(* Model of the book-swap marketplace bot (src/app/bot): the aiogram       *)
(* router of handlers.py with its per-user FSM storage (stage + answer     *)
(* bag), the users and books tables behind session_scope, and the          *)
(* responses the handlers send.  One action per handler; a handler is      *)
(* enabled for an event exactly when the router would dispatch the event   *)
(* to it (handlers are tried in registration order, first match wins).     *)
(*                                                                         *)
(* A message text is a sequence of tokens: " " is a whitespace token and   *)
(* every other token is a word without surrounding whitespace.             *)
(***************************************************************************)
EXTENDS Integers, Sequences, FiniteSets, TLC

VARIABLES
    fsmState,   \* [user -> stage]   aiogram FSMContext state (MemoryStorage)
    fsmData,    \* [user -> bag]     aiogram FSMContext data: key -> value
    users,      \* users table: row id = index, value = telegram_id
    books,      \* books table: row id = index, value = Book row
    confirmShown, \* [user -> BOOLEAN] a confirm keyboard was sent to the user
    reply,      \* the response of the event handled last
    outbox,     \* the messages the event handled last sent besides its answer
    dbSessions, \* [task -> session]  the database sessions of the events in flight
    chat        \* [user -> queries]  the search result messages with Prev/Next
                \*                    buttons in the user's chat, by their query

vars == <<fsmState, fsmData, users, books, confirmShown, reply, outbox, dbSessions, chat>>

----------------------------------------------------------------------------
(* Bounds of the model *)

NumUsers == 2
MaxBooks == 1

UserIds == 1..NumUsers

----------------------------------------------------------------------------
(* Texts *)

SP == " "

\* str.lstrip(), str.rstrip(), str.strip(): drop the leading and the
\* trailing whitespace
RECURSIVE LStrip(_)
LStrip(t) == IF t # <<>> /\ Head(t) = SP THEN LStrip(Tail(t)) ELSE t

RECURSIVE RStrip(_)
RStrip(t) ==
    IF t # <<>> /\ t[Len(t)] = SP THEN RStrip(SubSeq(t, 1, Len(t) - 1)) ELSE t

Strip(t) == RStrip(LStrip(t))

\* str.casefold() / str.lower() of one word
Lower(w) ==
    CASE w = "Good" -> "good"
      [] w = "GOOD" -> "good"
      [] w = "SKIP" -> "skip"
      [] w = "Skip" -> "skip"
      [] w = "Search" -> "search"
      [] w = "Post a book" -> "post a book"
      [] w = "Browse books" -> "browse books"
      [] w = "My listings" -> "my listings"
      [] w = "New" -> "new"
      [] w = "Like new" -> "like new"
      [] w = "Acceptable" -> "acceptable"
      [] w = "Poor" -> "poor"
      [] w = "Cancel" -> "cancel"
      [] w = "A" -> "a"
      [] w = "B" -> "b"
      [] OTHER -> w

Casefold(t) == [i \in 1..Len(t) |-> Lower(t[i])]

\* Optional values (None / a value)
None == <<>>
Some(v) == <<v>>

----------------------------------------------------------------------------
(* Domain values *)

\* PostBookStates, SearchStates, and None (no flow)
PostStages == <<"title", "author", "condition", "price", "description", "confirm">>
PostStageSet == {PostStages[i] : i \in 1..Len(PostStages)}
Stages == PostStageSet \cup {"query", "none"}

\* CONDITION_MAP: casefolded label -> BookCondition value
ConditionLabels == {<<"new">>, <<"like new">>, <<"good">>, <<"acceptable">>, <<"poor">>}

CONDITION_MAP(label) ==
    CASE label = <<"new">> -> "new"
      [] label = <<"like new">> -> "like_new"
      [] label = <<"good">> -> "good"
      [] label = <<"acceptable">> -> "acceptable"
      [] label = <<"poor">> -> "poor"

POST_COMMANDS == {<<"/post">>, <<"post a book">>, <<"list a book">>}
BROWSE_COMMANDS == {<<"/browse">>, <<"browse">>, <<"browse books">>}
SEARCH_COMMANDS == {<<"/search">>, <<"search">>, <<"search books">>}
MY_LISTINGS_COMMANDS == {<<"/mybooks">>, <<"my books">>, <<"my listings">>}

\* Decimal("Infinity"): a value that compares above every finite value
Infinity == 2000000000

\* decimal.Decimal(text): None for InvalidOperation, else the value in
\* thousandths.  A text with inner or outer whitespace tokens does not parse
\* (the handlers strip before parsing).
Decimal(t) ==
    IF Len(t) # 1 THEN None
    ELSE CASE t[1] = "12.5" -> Some(12500)
           [] t[1] = "12.345" -> Some(12345)
           [] t[1] = "0" -> Some(0)
           [] t[1] = "-1" -> Some(-1000)
           [] t[1] = "Infinity" -> Some(Infinity)
           [] OTHER -> None

\* Book.quantize_price: the value rounded half-up to cents (kept in
\* thousandths); None when quantize raises (Infinity) or the rounded value is
\* negative (ValueError)
quantize_price(v) ==
    IF v = Infinity THEN None
    ELSE LET quantized == IF v >= 0 THEN ((v + 5) \div 10) * 10
                          ELSE 0 - (((0 - v) + 5) \div 10) * 10
         IN IF quantized < 0 THEN None ELSE Some(quantized)

\* str(Decimal): the text of a value
DecimalStr(d) ==
    CASE d = 12500 -> <<"12.5">>
      [] d = 12345 -> <<"12.345">>
      [] d = Infinity -> <<"Infinity">>
      [] d = 0 -> <<"0">>
      [] d = -1000 -> <<"-1">>

\* FSM data bags: functions from a set of keys to values
EmptyBag == [k \in {} |-> None]
Put(bag, key, v) == [k \in DOMAIN bag \cup {key} |-> IF k = key THEN v ELSE bag[k]]
\* dict.get(key): None when the key is absent
Get(bag, key) == IF key \in DOMAIN bag THEN bag[key] ELSE None

Reply(kind) == [kind |-> kind, query |-> <<>>, page |-> 0, book_id |-> 0]

----------------------------------------------------------------------------
(* The texts users send *)

T_blank == <<SP>>
T_good == <<SP, "Good", SP>>
T_skip == <<"SKIP">>
T_price == <<"12.5">>
T_neg == <<"-1">>
T_round == <<"12.345">>
T_inf == <<"Infinity">>
T_zero == <<"0">>
T_Skip == <<SP, "Skip">>
T_search == <<"/search">>

\* Commands and menu texts whose handlers are registered before the
\* collect_* handlers, and those registered after them
EarlyCommandTexts == {<<"/start">>, <<"/help">>, <<"/cancel">>, <<"/post">>, <<"Post a book">>}
LateCommandTexts == {<<"/browse">>, T_search, <<"Search">>, <<"/mybooks">>}

\* The answers a user sends at a stage.  At the stages that store the text
\* verbatim (title, author, description) the enumerated answers are kept to
\* a few; at every other stage the late commands are sent as well.
StageTexts(stage) ==
    CASE stage = "title" -> {T_blank, T_good, T_search}
      [] stage = "author" -> {T_skip, T_good}
      [] stage = "condition" -> {T_blank, T_good, T_price} \cup LateCommandTexts
      [] stage = "price" -> {T_blank, T_good, T_price, T_neg} \cup LateCommandTexts
      [] stage = "description" -> {T_skip}
      [] stage = "query" -> {T_blank, T_good} \cup LateCommandTexts
      [] OTHER -> {T_good} \cup LateCommandTexts

\* The users who post listings: the others browse, search and press buttons
Sellers == {1}
PostTexts == {<<"/post">>, <<"Post a book">>}

\* The texts user u may send at a stage
InputsAt(u, stage) ==
    (EarlyCommandTexts \ (IF u \in Sellers THEN {} ELSE PostTexts)) \cup StageTexts(stage)

\* The texts of the listings and the queries of the catalog
Queries == {<<>>, <<SP>>, <<"A">>, <<SP, "b", SP>>, <<"_">>}

\* The texts of the reply-keyboard buttons (main_menu_keyboard,
\* condition_keyboard) that arrive as messages
condition_keyboard ==
    {<<"New">>, <<"Like new">>, <<"Good">>, <<"Acceptable">>, <<"Poor">>, <<"Cancel">>}
ButtonTexts == {<<"Browse books">>, <<"My listings">>} \cup condition_keyboard

AllInputs ==
    EarlyCommandTexts \cup LateCommandTexts
        \cup {T_blank, T_good, T_skip, T_price, T_neg, T_round, T_inf, T_zero, T_Skip}

----------------------------------------------------------------------------
(* Routing: the first registered handler whose filter matches *)

\* aiogram Command(c): the first whitespace-separated word of the text is c
FirstWord(t) == IF LStrip(t) = <<>> THEN "" ELSE Head(LStrip(t))
IsCommand(t, c) == FirstWord(t) = c

\* F.text.casefold().in_(commands)
IsMenuText(t, commands) == Casefold(t) \in commands

\* The state filter of the collect_* handlers
StageHandler(stage) ==
    CASE stage = "title" -> "collect_title"
      [] stage = "author" -> "collect_author"
      [] stage = "condition" -> "collect_condition"
      [] stage = "price" -> "collect_price"
      [] stage = "description" -> "collect_description"

EarlyStages == {"title", "author", "condition", "price", "description"}

\* Routing with the state filters tried before the command filters
RouteStateFirst(stage, t) ==
    IF stage \in EarlyStages THEN StageHandler(stage)
    ELSE IF stage = "query" THEN "handle_search_query"
    ELSE IF IsCommand(t, "/start") THEN "handle_start"
    ELSE IF IsCommand(t, "/help") THEN "handle_help"
    ELSE IF IsCommand(t, "/cancel") THEN "handle_cancel"
    ELSE IF IsCommand(t, "/post") \/ IsMenuText(t, POST_COMMANDS) THEN "start_post_flow"
    ELSE IF IsCommand(t, "/browse") \/ IsMenuText(t, BROWSE_COMMANDS) THEN "browse_books"
    ELSE IF IsCommand(t, "/search") \/ IsMenuText(t, SEARCH_COMMANDS) THEN "start_search"
    ELSE IF IsCommand(t, "/mybooks") \/ IsMenuText(t, MY_LISTINGS_COMMANDS) THEN "my_listings"
    ELSE "unhandled"

\* The message handler a text is dispatched to in a stage, in the
\* registration order of handlers.py
Route(stage, t) ==
    IF IsCommand(t, "/start") THEN "handle_start"
    ELSE IF IsCommand(t, "/help") THEN "handle_help"
    ELSE IF IsCommand(t, "/cancel") THEN "handle_cancel"
    ELSE IF IsCommand(t, "/post") \/ IsMenuText(t, POST_COMMANDS) THEN "start_post_flow"
    ELSE IF stage \in EarlyStages THEN StageHandler(stage)
    ELSE IF IsCommand(t, "/browse") \/ IsMenuText(t, BROWSE_COMMANDS) THEN "browse_books"
    ELSE IF IsCommand(t, "/search") \/ IsMenuText(t, SEARCH_COMMANDS) THEN "start_search"
    ELSE IF IsCommand(t, "/mybooks") \/ IsMenuText(t, MY_LISTINGS_COMMANDS) THEN "my_listings"
    ELSE IF stage = "query" THEN "handle_search_query"
    ELSE "unhandled"

\* Route tabulated over the stages and the texts of the model (@@ makes the
\* table an explicit function)
RouteTable == [p \in Stages \X (AllInputs \cup ButtonTexts \cup Queries) |-> Route(p[1], p[2])] @@ <<>>
Dispatch(stage, t) == RouteTable[<<stage, t>>]

----------------------------------------------------------------------------
(* Storage helpers (utils.py) and FSMContext operations *)

\* The users row of a telegram user, 0 when there is none
UserRow(tbl, u) ==
    IF \E i \in 1..Len(tbl) : tbl[i] = u
    THEN CHOOSE i \in 1..Len(tbl) : tbl[i] = u
    ELSE 0

\* ensure_user: insert a row for the telegram user unless one exists
ensure_user(tbl, u) == IF UserRow(tbl, u) = 0 THEN Append(tbl, u) ELSE tbl

\* get_book_by_id: the row id when the row exists, 0 for None
get_book_by_id(tbl, book_id) == IF book_id \in 1..Len(tbl) THEN book_id ELSE 0

\* mark_sold that leaves the flag as it is
mark_sold_keeps_flag(book) == [book EXCEPT !.is_sold = book.is_sold]

\* Book.mark_sold
mark_sold(book) == [book EXCEPT !.is_sold = TRUE]

\* get_user_books(seller_id, include_sold=False)
get_user_books(tbl, seller_id) ==
    {i \in 1..Len(tbl) : tbl[i].seller_id = seller_id /\ ~tbl[i].is_sold}

\* A filter that keeps the sold rows
AllRows(tbl) == 1..Len(tbl)

\* The unsold rows (paginate_books filter)
Unsold(tbl) == {i \in 1..Len(tbl) : ~tbl[i].is_sold}

\* A storage that keeps one context for all users
SetForAll(f, u, v) == [w \in DOMAIN f |-> v]

\* state.set_state() / state.set_data() on one user's context
SetFor(f, u, v) == [f EXCEPT ![u] = v]

Init ==
    /\ fsmState = [u \in UserIds |-> "none"]
    /\ fsmData = [u \in UserIds |-> EmptyBag]
    /\ users = <<>>
    /\ books = <<>>
    /\ confirmShown = [u \in UserIds |-> FALSE]
    /\ reply = Reply("init")
    /\ outbox = <<>>
    /\ dbSessions = <<>>
    /\ chat = [u \in UserIds |-> {}]

\* An exception left the handler: the transaction is rolled back and the
\* dispatcher's error_handler logs it
Raised == Reply("raised")

----------------------------------------------------------------------------
(* Message handlers *)

handle_start(u, t, fail) ==
    /\ outbox' = <<>>
    /\ UNCHANGED <<dbSessions, chat>>
    /\ Dispatch(fsmState[u], t) = "handle_start"
    /\ fsmState' = SetFor(fsmState, u, "none")
    /\ fsmData' = SetFor(fsmData, u, EmptyBag)
    /\ users' = IF fail THEN users ELSE ensure_user(users, u)
    /\ reply' = IF fail THEN Raised ELSE Reply("welcome")
    /\ UNCHANGED <<books, confirmShown>>

handle_help(u, t) ==
    /\ outbox' = <<>>
    /\ UNCHANGED <<dbSessions, chat>>
    /\ Dispatch(fsmState[u], t) = "handle_help"
    /\ reply' = Reply("help")
    /\ UNCHANGED <<fsmState, fsmData, users, books, confirmShown>>

\* handle_cancel resetting the stage but keeping the answers
handle_cancel_keeps_data(u, t) ==
    /\ outbox' = <<>>
    /\ UNCHANGED <<dbSessions, chat>>
    /\ Dispatch(fsmState[u], t) = "handle_cancel"
    /\ IF fsmState[u] = "none"
       THEN /\ reply' = Reply("not_in_process")
            /\ UNCHANGED <<fsmState, fsmData>>
       ELSE /\ fsmState' = SetFor(fsmState, u, "none")
            /\ fsmData' = fsmData
            /\ reply' = Reply("canceled")
    /\ UNCHANGED <<users, books, confirmShown>>

handle_cancel(u, t) ==
    /\ outbox' = <<>>
    /\ UNCHANGED <<dbSessions, chat>>
    /\ Dispatch(fsmState[u], t) = "handle_cancel"
    /\ IF fsmState[u] = "none"
       THEN /\ reply' = Reply("not_in_process")
            /\ UNCHANGED <<fsmState, fsmData>>
       ELSE /\ fsmState' = SetFor(fsmState, u, "none")
            /\ fsmData' = SetFor(fsmData, u, EmptyBag)
            /\ reply' = Reply("canceled")
    /\ UNCHANGED <<users, books, confirmShown>>

\* The body shared by start_post_flow and the "post" branch of handle_main_menu
PostFlowStart(u, fail) ==
    /\ fsmData' = SetFor(fsmData, u, EmptyBag)
    /\ fsmState' = SetFor(fsmState, u, IF fail THEN "none" ELSE "title")
    /\ users' = IF fail THEN users ELSE ensure_user(users, u)
    /\ reply' = IF fail THEN Raised ELSE Reply("ask_title")
    /\ UNCHANGED <<books, confirmShown>>

start_post_flow(u, t, fail) ==
    /\ outbox' = <<>>
    /\ UNCHANGED <<dbSessions, chat>>
    /\ Dispatch(fsmState[u], t) = "start_post_flow"
    /\ PostFlowStart(u, fail)

collect_title(u, t) ==
    /\ outbox' = <<>>
    /\ UNCHANGED <<dbSessions, chat>>
    /\ Dispatch(fsmState[u], t) = "collect_title"
    /\ LET text == Strip(t) IN
       IF text = <<>>
       THEN /\ reply' = Reply("please_title")
            /\ UNCHANGED <<fsmState, fsmData>>
       ELSE /\ fsmData' = SetFor(fsmData, u, Put(fsmData[u], "title", text))
            /\ fsmState' = SetFor(fsmState, u, "author")
            /\ reply' = Reply("ask_author")
    /\ UNCHANGED <<users, books, confirmShown>>

\* The skip test without the lower()
SkipOrExact(text) == IF text = <<"skip">> THEN None ELSE Some(text)

\* None if text.lower() == "skip" else text
SkipOr(text) == IF Casefold(text) = <<"skip">> THEN None ELSE Some(text)

\* collect_author with the wrong next state
collect_author_skips_condition(u, t) ==
    /\ outbox' = <<>>
    /\ UNCHANGED <<dbSessions, chat>>
    /\ Dispatch(fsmState[u], t) = "collect_author"
    /\ fsmData' = SetFor(fsmData, u, Put(fsmData[u], "author", SkipOr(Strip(t))))
    /\ fsmState' = SetFor(fsmState, u, "price")
    /\ reply' = Reply("ask_condition")
    /\ UNCHANGED <<users, books, confirmShown>>

collect_author(u, t) ==
    /\ outbox' = <<>>
    /\ UNCHANGED <<dbSessions, chat>>
    /\ Dispatch(fsmState[u], t) = "collect_author"
    /\ fsmData' = SetFor(fsmData, u, Put(fsmData[u], "author", SkipOr(Strip(t))))
    /\ fsmState' = SetFor(fsmState, u, "condition")
    /\ reply' = Reply("ask_condition")
    /\ UNCHANGED <<users, books, confirmShown>>

\* A condition stage that advances without storing the condition
collect_condition_not_stored(u, t) ==
    /\ outbox' = <<>>
    /\ UNCHANGED <<dbSessions, chat>>
    /\ Dispatch(fsmState[u], t) = "collect_condition"
    /\ LET text == Casefold(Strip(t)) IN
       IF text \notin ConditionLabels
       THEN /\ reply' = Reply("please_condition")
            /\ UNCHANGED <<fsmState, fsmData>>
       ELSE /\ fsmData' = fsmData
            /\ fsmState' = SetFor(fsmState, u, "price")
            /\ reply' = Reply("ask_price")
    /\ UNCHANGED <<users, books, confirmShown>>

collect_condition(u, t) ==
    /\ outbox' = <<>>
    /\ UNCHANGED <<dbSessions, chat>>
    /\ Dispatch(fsmState[u], t) = "collect_condition"
    /\ LET text == Casefold(Strip(t)) IN
       IF text \notin ConditionLabels
       THEN /\ reply' = Reply("please_condition")
            /\ UNCHANGED <<fsmState, fsmData>>
       ELSE /\ fsmData' = SetFor(fsmData, u, Put(fsmData[u], "condition", CONDITION_MAP(text)))
            /\ fsmState' = SetFor(fsmState, u, "price")
            /\ reply' = Reply("ask_price")
    /\ UNCHANGED <<users, books, confirmShown>>

\* The price test without the sign check
PriceAcceptedAnySign(text) == Decimal(text) # None

\* The price test of collect_price: Decimal(text) parses and is not < 0
PriceAccepted(text) == Decimal(text) # None /\ Decimal(text)[1] >= 0

collect_price(u, t) ==
    /\ outbox' = <<>>
    /\ UNCHANGED <<dbSessions, chat>>
    /\ Dispatch(fsmState[u], t) = "collect_price"
    /\ LET text == Strip(t) IN
       IF ~PriceAccepted(text)
       THEN /\ reply' = Reply("please_price")
            /\ UNCHANGED <<fsmState, fsmData>>
       ELSE /\ fsmData' = SetFor(fsmData, u, Put(fsmData[u], "price", text))
            /\ fsmState' = SetFor(fsmState, u, "description")
            /\ reply' = Reply("ask_description")
    /\ UNCHANGED <<users, books, confirmShown>>

collect_description(u, t) ==
    /\ outbox' = <<>>
    /\ UNCHANGED <<dbSessions, chat>>
    /\ Dispatch(fsmState[u], t) = "collect_description"
    /\ fsmData' = SetFor(fsmData, u, Put(fsmData[u], "description", SkipOr(Strip(t))))
    /\ fsmState' = SetFor(fsmState, u, "confirm")
    /\ confirmShown' = SetFor(confirmShown, u, TRUE)
    /\ reply' = Reply("confirm_summary")
    /\ UNCHANGED <<users, books>>

\* SQL LIKE: in the pattern "%" matches any run of tokens and "_" any one
\* token; every other token matches itself
RECURSIVE Like(_, _)
Like(hay, pattern) ==
    IF pattern = <<>> THEN hay = <<>>
    ELSE IF Head(pattern) = "%"
         THEN Like(hay, Tail(pattern)) \/ (hay # <<>> /\ Like(Tail(hay), pattern))
         ELSE /\ hay # <<>>
              /\ (Head(pattern) = "_" \/ Head(pattern) = Head(hay))
              /\ Like(Tail(hay), Tail(pattern))

\* search_term = f"%{query.strip().lower()}%"
SearchTerm(query) == <<"%">> \o Casefold(Strip(query)) \o <<"%">>

\* func.lower(column).like(search_term); a NULL column never matches
ColumnLike(column, query) ==
    column # None /\ Like(Casefold(column[1]), SearchTerm(query))

\* if not query.strip(): return [], 0, 1
EmptyQueryUnstripped(query) == query = <<>>

EmptyQuery(query) == Strip(query) = <<>>

\* search_books filter: the unsold rows whose lowered title, author or
\* description is LIKE the search term
search_books(tbl, query) ==
    IF EmptyQuery(query) THEN {}
    ELSE {i \in Unsold(tbl) :
            \/ ColumnLike(Some(tbl[i].title), query)
            \/ ColumnLike(tbl[i].author, query)
            \/ ColumnLike(tbl[i].description, query)}

\* The CallbackData classes by prefix, and their fields after "action"
Prefixes == {"confirm", "browse", "manage", "menu", "search"}
HasPage(prefix) == prefix \in {"browse", "search"}
HasBookId(prefix) == prefix \in {"browse", "search", "manage"}

\* An instance of a CallbackData class; a field the class does not have is None
Callback(prefix, action, page, book_id) ==
    [prefix |-> prefix, action |-> action, page |-> page, book_id |-> book_id]

Max(a, b) == IF a >= b THEN a ELSE b
Min(a, b) == IF a <= b THEN a ELSE b

\* Book.created_at; the creation time of a row the post flow creates is not
\* modelled, so such rows may be returned in any order
CreatedAt(row) == IF "created_at" \in DOMAIN row THEN row.created_at ELSE 0

\* ORDER BY created_at DESC: the orders in which the database may return the
\* rows; the order of rows with equal created_at is not specified
Orderings(tbl, rows) ==
    {o \in [1..Cardinality(rows) -> rows] :
        /\ \A i, j \in DOMAIN o : i # j => o[i] # o[j]
        /\ \A i, j \in DOMAIN o : i < j => CreatedAt(tbl[o[i]]) >= CreatedAt(tbl[o[j]])}

\* .offset((page - 1) * per_page).limit(per_page)
OffsetLimit(o, page, per_page) ==
    SubSeq(o, (page - 1) * per_page + 1, Min(Len(o), page * per_page))

\* total_pages with the division rounded down
TotalPagesFloor(total, per_page) ==
    IF total # 0 THEN Max(1, total \div per_page) ELSE 1

\* max(1, (total + per_page - 1) // per_page) if total else 1
TotalPages(total, per_page) ==
    IF total # 0 THEN Max(1, (total + per_page - 1) \div per_page) ELSE 1

\* The tuple (books, total, total_pages) and the storage queries issued
Result(items, total, total_pages, queries) ==
    [items |-> items, total |-> total, total_pages |-> total_pages, queries |-> queries]

\* paginate_books(page, per_page): o is the order the database returns
paginate_books(tbl, page, per_page, o) ==
    LET total == Cardinality(Unsold(tbl)) IN
    Result(OffsetLimit(o, page, per_page), total, TotalPages(total, per_page), 2)

\* search_books(query, page, per_page): o is the order the database returns
search_books_page(tbl, query, page, per_page, o) ==
    IF EmptyQuery(query) THEN Result(<<>>, 0, 1, 0)
    ELSE LET total == Cardinality(search_books(tbl, query)) IN
         Result(OffsetLimit(o, page, per_page), total, TotalPages(total, per_page), 2)

\* settings.PAGE_SIZE, scaled down so that small catalogs have several pages
PAGE_SIZE == 2

\* A render that has no empty-state text
render_browse_page_no_empty_state(tbl, page, o) ==
    LET r == paginate_books(tbl, page, PAGE_SIZE, o) IN
    [text |-> "browse_page", buttons |-> r.items,
     total |-> r.total, total_pages |-> r.total_pages]

\* render_browse_page(page): the text, the listings of the page, total and
\* total_pages; o is the order the database returns
render_browse_page(tbl, page, o) ==
    LET r == paginate_books(tbl, page, PAGE_SIZE, o) IN
    IF r.total = 0
    THEN [text |-> "browse_empty", buttons |-> <<>>, total |-> page, total_pages |-> 1]
    ELSE [text |-> "browse_page", buttons |-> r.items,
          total |-> r.total, total_pages |-> r.total_pages]

\* The Prev and Next buttons of browse_keyboard and search_results_keyboard
PageButtons(prefix, page, total_pages) ==
    IF total_pages > 1
    THEN (IF page > 1 THEN <<Callback(prefix, "page", Some(page - 1), None)>> ELSE <<>>)
         \o (IF page < total_pages
             THEN <<Callback(prefix, "page", Some(page + 1), None)>> ELSE <<>>)
    ELSE <<>>

\* browse_keyboard(books, page, total_pages): the callback data of its buttons
browse_keyboard(items, page, total_pages) ==
    [i \in 1..Len(items) |-> Callback("browse", "contact", Some(page), Some(items[i]))]
        \o PageButtons("browse", page, total_pages)

\* The answer of browse_books, of the "browse" branch of handle_main_menu and
\* of paginate_browse: the rendered text with
\* markup = browse_keyboard(...) if buttons else None
BrowseReply(tbl, page, o) ==
    LET view == render_browse_page(tbl, page, o) IN
    [kind |-> view.text, query |-> <<>>,
     page |-> IF view.text = "browse_empty" THEN 0 ELSE page, book_id |-> 0,
     markup |-> IF view.buttons # <<>>
                THEN Some(browse_keyboard(view.buttons, page, view.total_pages))
                ELSE None]

\* The orders in which the database may return the unsold listings
BrowseOrders(tbl) == Orderings(tbl, Unsold(tbl))

browse_books(u, t, fail) ==
    /\ outbox' = <<>>
    /\ UNCHANGED <<dbSessions, chat>>
    /\ Dispatch(fsmState[u], t) = "browse_books"
    /\ IF fail THEN reply' = Raised
       ELSE \E o \in BrowseOrders(books) : reply' = BrowseReply(books, 1, o)
    /\ UNCHANGED <<fsmState, fsmData, users, books, confirmShown>>

\* The body shared by start_search and the "search" branch of handle_main_menu
SearchFlowStart(u) ==
    /\ fsmData' = SetFor(fsmData, u, EmptyBag)
    /\ fsmState' = SetFor(fsmState, u, "query")
    /\ reply' = Reply("ask_query")
    /\ UNCHANGED <<users, books, confirmShown>>

start_search(u, t) ==
    /\ outbox' = <<>>
    /\ UNCHANGED <<dbSessions, chat>>
    /\ Dispatch(fsmState[u], t) = "start_search"
    /\ SearchFlowStart(u)

\* ensure_user + get_user_books + the listing view
MyListings(u, fail) ==
    /\ users' = IF fail THEN users ELSE ensure_user(users, u)
    /\ reply' =
         IF fail THEN Raised
         ELSE IF get_user_books(books, UserRow(ensure_user(users, u), u)) = {}
              THEN Reply("no_listings")
              ELSE Reply("my_listings")
    /\ UNCHANGED <<fsmState, fsmData, books, confirmShown>>

my_listings(u, t, fail) ==
    /\ outbox' = <<>>
    /\ UNCHANGED <<dbSessions, chat>>
    /\ Dispatch(fsmState[u], t) = "my_listings"
    /\ MyListings(u, fail)

\* update_data(search_query=query) without the state.clear() before it
SearchDoneNoClear(u, query) ==
    /\ fsmState' = fsmState
    /\ fsmData' = SetFor(fsmData, u, Put(fsmData[u], "search_query", query))

\* state.clear() followed by state.update_data(search_query=query)
SearchDone(u, query) ==
    /\ fsmState' = SetFor(fsmState, u, "none")
    /\ fsmData' = SetFor(fsmData, u, Put(EmptyBag, "search_query", query))

\* render_search_page(query, page): the text, the listings of the page,
\* total and total_pages; o is the order the database returns
render_search_page(tbl, query, page, o) ==
    LET r == search_books_page(tbl, query, page, PAGE_SIZE, o) IN
    IF r.total = 0
    THEN [text |-> "search_empty", buttons |-> <<>>, total |-> page, total_pages |-> 1]
    ELSE [text |-> "search_results", buttons |-> r.items,
          total |-> r.total, total_pages |-> r.total_pages]

\* search_results_keyboard(books, page, total_pages, query): the callback data
\* of its buttons; the query is not part of any of them
search_results_keyboard(items, page, total_pages, query) ==
    [i \in 1..Len(items) |-> Callback("search", "contact", Some(page), Some(items[i]))]
        \o PageButtons("search", page, total_pages)
        \o <<Callback("menu", "search", None, None)>>

inline_main_menu_keyboard ==
    <<Callback("menu", "post", None, None), Callback("menu", "browse", None, None),
      Callback("menu", "search", None, None), Callback("menu", "mybooks", None, None)>>

\* The orders in which the database may return the matches of a query
SearchOrders(tbl, query) == Orderings(tbl, search_books(tbl, query))

\* The page buttons of a keyboard
HasPageButtons(markup) ==
    markup # None /\ \E i \in DOMAIN markup[1] : markup[1][i].action = "page"

\* The answer of handle_search_query: the "no books found" text with the main
\* menu when the page has no listings, else the rendered page with
\* search_results_keyboard
SearchReply(tbl, query, o) ==
    LET view == render_search_page(tbl, query, 1, o) IN
    [kind |-> IF view.buttons = <<>> THEN "search_empty" ELSE "search_results",
     query |-> query, page |-> 1, book_id |-> 0,
     markup |-> IF view.buttons = <<>> THEN Some(inline_main_menu_keyboard)
                ELSE Some(search_results_keyboard(view.buttons, 1, view.total_pages, query))]

\* The search result messages in the chat after the answer r to a search
ChatAfter(u, r) ==
    IF r # Raised /\ HasPageButtons(r.markup)
    THEN SetFor(chat, u, chat[u] \cup {r.query}) ELSE chat

handle_search_query(u, t, fail) ==
    /\ outbox' = <<>>
    /\ UNCHANGED dbSessions
    /\ Dispatch(fsmState[u], t) = "handle_search_query"
    /\ LET query == Strip(t) IN
       IF query = <<>>
       THEN /\ reply' = Reply("please_query")
            /\ UNCHANGED <<fsmState, fsmData, chat>>
       ELSE /\ SearchDone(u, query)
            /\ IF fail THEN reply' = Raised
               ELSE \E o \in SearchOrders(books, query) :
                       reply' = SearchReply(books, query, o)
            /\ chat' = ChatAfter(u, reply')
    /\ UNCHANGED <<users, books, confirmShown>>

unhandled_message(u, t) ==
    /\ outbox' = <<>>
    /\ UNCHANGED <<dbSessions, chat>>
    /\ Dispatch(fsmState[u], t) = "unhandled"
    /\ reply' = Reply("unhandled")
    /\ UNCHANGED <<fsmState, fsmData, users, books, confirmShown>>

----------------------------------------------------------------------------
(* Callback handlers *)

ConfirmActions == {"confirm", "cancel"}
MenuActions == {"post", "browse", "search", "mybooks"}

\* The Book row built from the answer bag
NewBook(data, seller_id) ==
    [title |-> data["title"],
     author |-> Get(data, "author"),
     price |-> quantize_price(Decimal(data["price"])[1])[1],
     condition |-> data["condition"],
     description |-> Get(data, "description"),
     is_sold |-> FALSE,
     seller_id |-> seller_id]

\* The price check of finish_post_flow: data["price"] exists and parses
PriceDataValid(data) == "price" \in DOMAIN data /\ Decimal(data["price"]) # None

\* finish_post_flow whose failed transaction keeps its writes
finish_post_flow_no_rollback(u, action, fail) ==
    /\ outbox' = <<>>
    /\ UNCHANGED <<dbSessions, chat>>
    /\ confirmShown[u]
    /\ IF action = "cancel"
       THEN /\ fsmState' = SetFor(fsmState, u, "none")
            /\ fsmData' = SetFor(fsmData, u, EmptyBag)
            /\ reply' = Reply("listing_cancelled")
            /\ UNCHANGED <<users, books>>
       ELSE IF ~PriceDataValid(fsmData[u])
       THEN /\ reply' = Reply("invalid_price_data")
            /\ UNCHANGED <<fsmState, fsmData, users, books>>
       ELSE IF \/ fail
               \/ {"title", "condition"} \ DOMAIN fsmData[u] # {}
               \/ quantize_price(Decimal(fsmData[u]["price"])[1]) = None
       THEN /\ reply' = Raised
            /\ users' = ensure_user(users, u)
            /\ books' = IF PriceDataValid(fsmData[u]) /\ {"title", "condition"} \subseteq DOMAIN fsmData[u]
                            /\ quantize_price(Decimal(fsmData[u]["price"])[1]) # None
                         THEN Append(books, NewBook(fsmData[u], UserRow(users', u)))
                         ELSE books
            /\ UNCHANGED <<fsmState, fsmData>>
       ELSE /\ users' = ensure_user(users, u)
            /\ books' = Append(books, NewBook(fsmData[u], UserRow(users', u)))
            /\ fsmState' = SetFor(fsmState, u, "none")
            /\ fsmData' = SetFor(fsmData, u, EmptyBag)
            /\ reply' = [Reply("listed") EXCEPT !.book_id = Len(books')]
    /\ UNCHANGED confirmShown

\* finish_post_flow that keeps the answers after the listing is created
finish_post_flow_keeps_answers(u, action, fail) ==
    /\ outbox' = <<>>
    /\ UNCHANGED <<dbSessions, chat>>
    /\ confirmShown[u]
    /\ IF action = "cancel"
       THEN /\ fsmState' = SetFor(fsmState, u, "none")
            /\ fsmData' = SetFor(fsmData, u, EmptyBag)
            /\ reply' = Reply("listing_cancelled")
            /\ UNCHANGED <<users, books>>
       ELSE IF ~PriceDataValid(fsmData[u])
       THEN /\ reply' = Reply("invalid_price_data")
            /\ UNCHANGED <<fsmState, fsmData, users, books>>
       ELSE IF \/ fail
               \/ {"title", "condition"} \ DOMAIN fsmData[u] # {}
               \/ quantize_price(Decimal(fsmData[u]["price"])[1]) = None
       THEN /\ reply' = Raised
            /\ UNCHANGED <<fsmState, fsmData, users, books>>
       ELSE /\ users' = ensure_user(users, u)
            /\ books' = Append(books, NewBook(fsmData[u], UserRow(users', u)))
            /\ UNCHANGED <<fsmState, fsmData>>
            /\ reply' = [Reply("listed") EXCEPT !.book_id = Len(books')]
    /\ UNCHANGED confirmShown

finish_post_flow(u, action, fail) ==
    /\ outbox' = <<>>
    /\ UNCHANGED <<dbSessions, chat>>
    /\ confirmShown[u]
    /\ IF action = "cancel"
       THEN /\ fsmState' = SetFor(fsmState, u, "none")
            /\ fsmData' = SetFor(fsmData, u, EmptyBag)
            /\ reply' = Reply("listing_cancelled")
            /\ UNCHANGED <<users, books>>
       ELSE IF ~PriceDataValid(fsmData[u])
       THEN /\ reply' = Reply("invalid_price_data")
            /\ UNCHANGED <<fsmState, fsmData, users, books>>
       ELSE IF \/ fail
               \/ {"title", "condition"} \ DOMAIN fsmData[u] # {}
               \/ quantize_price(Decimal(fsmData[u]["price"])[1]) = None
       THEN /\ reply' = Raised
            /\ UNCHANGED <<fsmState, fsmData, users, books>>
       ELSE /\ users' = ensure_user(users, u)
            /\ books' = Append(books, NewBook(fsmData[u], UserRow(users', u)))
            /\ fsmState' = SetFor(fsmState, u, "none")
            /\ fsmData' = SetFor(fsmData, u, EmptyBag)
            /\ reply' = [Reply("listed") EXCEPT !.book_id = Len(books')]
    /\ UNCHANGED confirmShown

handle_main_menu(u, action, fail) ==
    /\ outbox' = <<>>
    /\ UNCHANGED <<dbSessions, chat>>
    /\ CASE action = "post" -> PostFlowStart(u, fail)
         [] action = "browse" ->
               /\ IF fail THEN reply' = Raised
                  ELSE \E o \in BrowseOrders(books) : reply' = BrowseReply(books, 1, o)
               /\ UNCHANGED <<fsmState, fsmData, users, books, confirmShown>>
         [] action = "search" -> ~fail /\ SearchFlowStart(u)
         [] action = "mybooks" -> MyListings(u, fail)
         [] OTHER ->
               /\ ~fail
               /\ reply' = Reply("answered")
               /\ UNCHANGED <<fsmState, fsmData, users, books, confirmShown>>

\* A test that only checks that the row exists
NotOwnerExistsOnly(tbl, book, seller) == book = 0

\* The test of mark_book_sold: book is None or book.seller_id != seller.id
NotOwner(tbl, book, seller) == book = 0 \/ tbl[book].seller_id # seller

\* mark_book_sold with the already-sold check before the ownership check
mark_book_sold_sold_check_first(u, book_id, fail) ==
    /\ outbox' = <<>>
    /\ UNCHANGED <<dbSessions, chat>>
    /\ IF fail
       THEN /\ reply' = Raised
            /\ UNCHANGED <<fsmState, fsmData, users, books, confirmShown>>
       ELSE LET tbl == ensure_user(users, u)
                seller == UserRow(tbl, u)
                book == get_book_by_id(books, book_id)
            IN /\ users' = tbl
               /\ IF book # 0 /\ books[book].is_sold
                  THEN /\ reply' = [Reply("already_sold") EXCEPT !.book_id = book_id]
                       /\ UNCHANGED books
                  ELSE IF NotOwner(books, book, seller)
                  THEN /\ reply' = [Reply("cannot_modify") EXCEPT !.book_id = book_id]
                       /\ UNCHANGED books
                  ELSE /\ books' = [books EXCEPT ![book] = mark_sold(books[book])]
                       /\ reply' = [Reply("marked_sold") EXCEPT !.book_id = book_id]
               /\ UNCHANGED <<fsmState, fsmData, confirmShown>>

mark_book_sold(u, book_id, fail) ==
    /\ outbox' = <<>>
    /\ UNCHANGED <<dbSessions, chat>>
    /\ IF fail
       THEN /\ reply' = Raised
            /\ UNCHANGED <<fsmState, fsmData, users, books, confirmShown>>
       ELSE LET tbl == ensure_user(users, u)
                seller == UserRow(tbl, u)
                book == get_book_by_id(books, book_id)
            IN /\ users' = tbl
               /\ IF NotOwner(books, book, seller)
                  THEN /\ reply' = [Reply("cannot_modify") EXCEPT !.book_id = book_id]
                       /\ UNCHANGED books
                  ELSE IF books[book].is_sold
                  THEN /\ reply' = [Reply("already_sold") EXCEPT !.book_id = book_id]
                       /\ UNCHANGED books
                  ELSE /\ books' = [books EXCEPT ![book] = mark_sold(books[book])]
                       /\ reply' = [Reply("marked_sold") EXCEPT !.book_id = book_id]
               /\ UNCHANGED <<fsmState, fsmData, confirmShown>>

----------------------------------------------------------------------------
(* Events and the specification *)

\* A free-text message or command of user u with text t
Message(u, t) ==
    \/ \E fail \in BOOLEAN : handle_start(u, t, fail)
    \/ handle_help(u, t)
    \/ handle_cancel(u, t)
    \/ \E fail \in BOOLEAN : start_post_flow(u, t, fail)
    \/ collect_title(u, t)
    \/ collect_author(u, t)
    \/ collect_condition(u, t)
    \/ collect_price(u, t)
    \/ collect_description(u, t)
    \/ \E fail \in BOOLEAN : browse_books(u, t, fail)
    \/ start_search(u, t)
    \/ \E fail \in BOOLEAN : my_listings(u, t, fail)
    \/ \E fail \in BOOLEAN : handle_search_query(u, t, fail)
    \/ unhandled_message(u, t)

BookIds == 1..(MaxBooks + 1)

\* The menu buttons user u presses
MenuActionsOf(u) == IF u \in Sellers THEN MenuActions ELSE MenuActions \ {"post"}

Next ==
    \/ \E u \in UserIds : \E t \in InputsAt(u, fsmState[u]), fail \in BOOLEAN :
          handle_start(u, t, fail)
    \/ \E u \in UserIds : \E t \in InputsAt(u, fsmState[u]) : handle_help(u, t)
    \/ \E u \in UserIds : \E t \in InputsAt(u, fsmState[u]) : handle_cancel(u, t)
    \/ \E u \in UserIds : \E t \in InputsAt(u, fsmState[u]), fail \in BOOLEAN :
          start_post_flow(u, t, fail)
    \/ \E u \in UserIds : \E t \in InputsAt(u, fsmState[u]) : collect_title(u, t)
    \/ \E u \in UserIds : \E t \in InputsAt(u, fsmState[u]) : collect_author(u, t)
    \/ \E u \in UserIds : \E t \in InputsAt(u, fsmState[u]) : collect_condition(u, t)
    \/ \E u \in UserIds : \E t \in InputsAt(u, fsmState[u]) : collect_price(u, t)
    \/ \E u \in UserIds : \E t \in InputsAt(u, fsmState[u]) : collect_description(u, t)
    \/ \E u \in UserIds : \E t \in InputsAt(u, fsmState[u]), fail \in BOOLEAN :
          browse_books(u, t, fail)
    \/ \E u \in UserIds : \E t \in InputsAt(u, fsmState[u]) : start_search(u, t)
    \/ \E u \in UserIds : \E t \in InputsAt(u, fsmState[u]), fail \in BOOLEAN :
          my_listings(u, t, fail)
    \/ \E u \in UserIds : \E t \in InputsAt(u, fsmState[u]), fail \in BOOLEAN :
          handle_search_query(u, t, fail)
    \/ \E u \in UserIds : \E t \in InputsAt(u, fsmState[u]) : unhandled_message(u, t)
    \/ \E u \in UserIds, a \in ConfirmActions, fail \in BOOLEAN :
          finish_post_flow(u, a, fail) /\ Len(books') <= MaxBooks
    \/ \E u \in UserIds : \E a \in MenuActionsOf(u), fail \in BOOLEAN :
          handle_main_menu(u, a, fail)
    \/ \E u \in UserIds, b \in BookIds, fail \in BOOLEAN : mark_book_sold(u, b, fail)

Spec == Init /\ [][Next]_vars

----------------------------------------------------------------------------
(* The create-listing flow of one seller, with the full alphabet of answers *)

Seller == 1

\* The listings the seller may create
MaxPostBooks == 2

\* The answers the seller sends at a stage of the flow
PostAnswers(stage) ==
    CASE stage = "title" -> {T_blank, T_good}
      [] stage = "author" -> {T_skip, T_Skip, T_good}
      [] stage = "condition" -> {T_good, T_price}
      [] stage = "price" -> {T_good, T_price, T_round, T_zero, T_neg, T_inf}
      [] stage = "description" -> {T_skip, T_good}
      [] OTHER -> {}

PostInputs(stage) == {<<"/post">>, <<"/cancel">>} \cup PostAnswers(stage)

NextPost ==
    \/ \E t \in PostInputs(fsmState[Seller]) : handle_cancel(Seller, t)
    \/ \E t \in PostInputs(fsmState[Seller]) : start_post_flow(Seller, t, FALSE)
    \/ \E t \in PostInputs(fsmState[Seller]) : collect_title(Seller, t)
    \/ \E t \in PostInputs(fsmState[Seller]) : collect_author(Seller, t)
    \/ \E t \in PostInputs(fsmState[Seller]) : collect_condition(Seller, t)
    \/ \E t \in PostInputs(fsmState[Seller]) : collect_price(Seller, t)
    \/ \E t \in PostInputs(fsmState[Seller]) : collect_description(Seller, t)
    \/ \E a \in ConfirmActions, fail \in BOOLEAN :
          finish_post_flow(Seller, a, fail) /\ Len(books') <= MaxPostBooks

SpecPost == Init /\ [][NextPost]_vars

----------------------------------------------------------------------------
(* The catalog queries (utils.py) over a catalog of several listings *)

\* Bounds of the catalog
MaxCatalog == 3
MaxTime == 2
MaxPage == 3
MaxPerPage == 2

\* The response that carries a page of the catalog
PageReply(kind, query, page, per_page, result) ==
    [kind |-> kind, query |-> query, page |-> page, per_page |-> per_page,
     items |-> result.items, total |-> result.total,
     total_pages |-> result.total_pages, queries |-> result.queries]

\* A browse request: paginate_books inside session_scope
browse(page, per_page, fail) ==
    /\ outbox' = <<>>
    /\ UNCHANGED <<dbSessions, chat>>
    /\ IF fail THEN reply' = Raised
       ELSE \E o \in Orderings(books, Unsold(books)) :
               reply' = PageReply("browse", <<>>, page, per_page,
                                  paginate_books(books, page, per_page, o))
    /\ UNCHANGED <<fsmState, fsmData, users, books, confirmShown>>

\* A search request: search_books inside session_scope; a storage failure
\* can only hit a request that queries the storage
search(query, page, per_page, fail) ==
    /\ outbox' = <<>>
    /\ UNCHANGED <<dbSessions, chat>>
    /\ IF fail /\ ~EmptyQuery(query) THEN reply' = Raised
       ELSE \E o \in Orderings(books, search_books(books, query)) :
               reply' = PageReply("search", query, page, per_page,
                                  search_books_page(books, query, page, per_page, o))
    /\ UNCHANGED <<fsmState, fsmData, users, books, confirmShown>>

\* The outcomes of bot.send_message to the seller: delivered, or the
\* exception the Telegram client raised
Deliveries == {"ok", "TelegramForbiddenError", "TelegramNotFound", "TelegramBadRequest"}

\* except (TelegramForbiddenError, TelegramNotFound): pass
Swallowed == {"TelegramForbiddenError", "TelegramNotFound"}

\* A message the bot sends besides the answer to the event
Sent(to, text, about, outcome) ==
    [to |-> to, text |-> text, about |-> about, outcome |-> outcome]

\* A notification that is sent again after a failed delivery
notify_seller_with_retry(tbl, book_id, delivery) ==
    IF delivery = "ok"
    THEN <<Sent(users[tbl[book_id].seller_id], "interest", book_id, delivery)>>
    ELSE <<Sent(users[tbl[book_id].seller_id], "interest", book_id, delivery),
           Sent(users[tbl[book_id].seller_id], "interest", book_id, delivery)>>

\* notify_seller_of_interest: one send_message to book.seller.telegram_id
notify_seller_of_interest(tbl, book_id, delivery) ==
    <<Sent(users[tbl[book_id].seller_id], "interest", book_id, delivery)>>

\* A test that only checks that the row exists
NoLongerAvailableMissingOnly(tbl, book) == book = 0

\* if book is None or book.is_sold
NoLongerAvailable(tbl, book) == book = 0 \/ tbl[book].is_sold

\* The body of contact_seller and contact_seller_from_search
ContactSeller(u, book_id, fail, delivery) ==
    /\ UNCHANGED <<dbSessions, chat>>
    /\ IF book_id = 0
       THEN /\ reply' = Reply("missing_book")
            /\ outbox' = <<>>
            /\ UNCHANGED <<fsmState, fsmData, users, books, confirmShown>>
       ELSE IF fail
       THEN /\ reply' = Raised
            /\ outbox' = <<>>
            /\ UNCHANGED <<fsmState, fsmData, users, books, confirmShown>>
       ELSE LET book == get_book_by_id(books, book_id) IN
            /\ users' = ensure_user(users, u)
            /\ IF NoLongerAvailable(books, book)
               THEN /\ reply' = [Reply("no_longer_available") EXCEPT !.book_id = book_id]
                    /\ outbox' = <<>>
               ELSE /\ outbox' = <<Sent(u, "seller_contact", book_id, "ok")>>
                                    \o notify_seller_of_interest(books, book, delivery)
                    /\ reply' = IF delivery = "ok" \/ delivery \in Swallowed
                                 THEN [Reply("contact_sent") EXCEPT !.book_id = book_id]
                                 ELSE Raised
            /\ UNCHANGED <<fsmState, fsmData, books, confirmShown>>

contact_seller(u, book_id, fail, delivery) == ContactSeller(u, book_id, fail, delivery)

contact_seller_from_search(u, book_id, fail, delivery) == ContactSeller(u, book_id, fail, delivery)

\* A listing of seller 1 created at time c
CatalogRow(title, author, c) ==
    [title |-> title, author |-> author, price |-> 0, condition |-> "good",
     description |-> None, is_sold |-> FALSE, seller_id |-> 1, created_at |-> c]

\* The listings: "a" without an author, and "A" by "B"
CatalogRows ==
    {CatalogRow(<<"a">>, None, c) : c \in 1..MaxTime}
        \cup {CatalogRow(<<"A">>, Some(<<"B">>), c) : c \in 1..MaxTime}

\* The user who asks for the seller's contact
Buyer == 2

\* The catalogs: unsold listings in insertion order, created_at never
\* decreasing along it
Catalogs ==
    UNION {{tbl \in [1..n -> CatalogRows] :
              \A i \in 1..(n - 1) : tbl[i].created_at <= tbl[i + 1].created_at}
           : n \in 0..MaxCatalog}

InitCatalog ==
    /\ fsmState = [u \in UserIds |-> "none"]
    /\ fsmData = [u \in UserIds |-> EmptyBag]
    /\ users = <<1, 2>>
    /\ books \in Catalogs
    /\ confirmShown = [u \in UserIds |-> FALSE]
    /\ reply = Reply("init")
    /\ outbox = <<>>
    /\ dbSessions = <<>>
    /\ chat = [u \in UserIds |-> {}]

NextCatalog ==
    \/ \E page \in 1..MaxPage, per_page \in 1..MaxPerPage, fail \in BOOLEAN :
          browse(page, per_page, fail)
    \/ \E query \in Queries, page \in 1..MaxPage, per_page \in 1..MaxPerPage, fail \in BOOLEAN :
          search(query, page, per_page, fail)
    \/ \E b \in 0..MaxCatalog, fail \in BOOLEAN, delivery \in Deliveries :
          contact_seller(Buyer, b, fail, delivery)
    \/ \E b \in 0..MaxCatalog, fail \in BOOLEAN, delivery \in Deliveries :
          contact_seller_from_search(Buyer, b, fail, delivery)
    \/ \E u \in UserIds, b \in 1..MaxCatalog : mark_book_sold(u, b, FALSE)

SpecCatalog == InitCatalog /\ [][NextCatalog]_vars

----------------------------------------------------------------------------
(* The contact-seller events over listings of two sellers *)

\* Bound of the listings
MaxContactBooks == 2

\* An unsold listing of a seller
ContactRow(seller_id) == [CatalogRow(<<"a">>, None, 1) EXCEPT !.seller_id = seller_id]

\* The users table with the sellers' rows, and the listings of those sellers
InitContact ==
    /\ fsmState = [u \in UserIds |-> "none"]
    /\ fsmData = [u \in UserIds |-> EmptyBag]
    /\ users \in {<<1>>, <<1, 2>>}
    /\ books \in UNION {[1..n -> {ContactRow(i) : i \in 1..Len(users)}] : n \in 0..MaxContactBooks}
    /\ confirmShown = [u \in UserIds |-> FALSE]
    /\ reply = Reply("init")
    /\ outbox = <<>>
    /\ dbSessions = <<>>
    /\ chat = [u \in UserIds |-> {}]

NextContact ==
    \/ \E u \in UserIds, b \in 0..(MaxContactBooks + 1), fail \in BOOLEAN, delivery \in Deliveries :
          contact_seller(u, b, fail, delivery)
    \/ \E u \in UserIds, b \in 0..(MaxContactBooks + 1), fail \in BOOLEAN, delivery \in Deliveries :
          contact_seller_from_search(u, b, fail, delivery)
    \/ \E u \in UserIds, b \in 1..MaxContactBooks, fail \in BOOLEAN : mark_book_sold(u, b, fail)

SpecContact == InitContact /\ [][NextContact]_vars

----------------------------------------------------------------------------
(* Two users who both post listings, their events interleaved *)

\* The texts a user sends at a stage
TwoUserTexts(stage) ==
    {<<"/post">>, <<"/cancel">>}
        \cup CASE stage \in {"title", "condition"} -> {T_good}
               [] stage \in {"author", "description"} -> {T_skip}
               [] stage = "price" -> {T_price}
               [] OTHER -> {}

\* A message of user u
FlowMessage(u) ==
    \/ \E t \in TwoUserTexts(fsmState[u]) : handle_cancel(u, t)
    \/ \E t \in TwoUserTexts(fsmState[u]) : start_post_flow(u, t, FALSE)
    \/ \E t \in TwoUserTexts(fsmState[u]) : collect_title(u, t)
    \/ \E t \in TwoUserTexts(fsmState[u]) : collect_author(u, t)
    \/ \E t \in TwoUserTexts(fsmState[u]) : collect_condition(u, t)
    \/ \E t \in TwoUserTexts(fsmState[u]) : collect_price(u, t)
    \/ \E t \in TwoUserTexts(fsmState[u]) : collect_description(u, t)

\* An event of user u
TwoUserEvent(u) ==
    \/ FlowMessage(u)
    \/ \E a \in ConfirmActions :
          finish_post_flow(u, a, FALSE) /\ Len(books') <= MaxBooks

NextTwoUsers == \E u \in UserIds : TwoUserEvent(u)

SpecTwoUsers == Init /\ [][NextTwoUsers]_vars

----------------------------------------------------------------------------
(* Concurrently handled events: the transactions of ensure_user interleave *)

\* Bound of the events handled at the same time
MaxTasks == 2

Tasks == 1..MaxTasks

\* The session of task k is dropped
CloseSession(k) == [j \in DOMAIN dbSessions \ {k} |-> dbSessions[j]]

\* The rows of the users table with telegram_id u
RowsOf(tbl, u) == {i \in 1..Len(tbl) : tbl[i] = u}

\* session_scope is entered for an event of user u
open_session(k, u) ==
    /\ k \notin DOMAIN dbSessions
    /\ dbSessions' = dbSessions @@ (k :> [u |-> u, pc |-> "select", pending |-> FALSE])
    /\ UNCHANGED <<fsmState, fsmData, users, books, confirmShown, reply, outbox, chat>>

\* ensure_user: select(User).where(User.telegram_id == tg_user.id) reads the
\* committed rows; scalar_one_or_none raises when there are several
select_user(k) ==
    /\ k \in DOMAIN dbSessions
    /\ dbSessions[k].pc = "select"
    /\ LET found == Cardinality(RowsOf(users, dbSessions[k].u)) IN
       IF found > 1
       THEN /\ dbSessions' = CloseSession(k)
            /\ reply' = Raised
       ELSE /\ dbSessions' = [dbSessions EXCEPT ![k].pc = IF found = 0 THEN "add" ELSE "commit"]
            /\ UNCHANGED reply
    /\ UNCHANGED <<fsmState, fsmData, users, books, confirmShown, outbox, chat>>

\* ensure_user: session.add(user); session.flush()
add_user(k) ==
    /\ k \in DOMAIN dbSessions
    /\ dbSessions[k].pc = "add"
    /\ dbSessions' = [dbSessions EXCEPT ![k].pc = "commit", ![k].pending = TRUE]
    /\ UNCHANGED <<fsmState, fsmData, users, books, confirmShown, reply, outbox, chat>>

\* session_scope: session.commit(), then the handler answers
commit_session(k) ==
    /\ k \in DOMAIN dbSessions
    /\ dbSessions[k].pc = "commit"
    /\ users' = IF dbSessions[k].pending THEN Append(users, dbSessions[k].u) ELSE users
    /\ dbSessions' = CloseSession(k)
    /\ reply' = Reply("welcome")
    /\ UNCHANGED <<fsmState, fsmData, books, confirmShown, outbox, chat>>

\* session_scope: an exception in the block, session.rollback() and raise
rollback_session(k) ==
    /\ k \in DOMAIN dbSessions
    /\ dbSessions' = CloseSession(k)
    /\ reply' = Raised
    /\ UNCHANGED <<fsmState, fsmData, users, books, confirmShown, outbox, chat>>

NextConcurrent ==
    \/ \E k \in Tasks, u \in UserIds : open_session(k, u)
    \/ \E k \in Tasks : select_user(k)
    \/ \E k \in Tasks : add_user(k)
    \/ \E k \in Tasks : commit_session(k)
    \/ \E k \in Tasks : rollback_session(k)

SpecConcurrent == Init /\ [][NextConcurrent]_vars

----------------------------------------------------------------------------
(* Callback data (keyboards.py): aiogram CallbackData packs the prefix and  *)
(* the fields in declaration order, joined by ":", and unpacks by splitting. *)
(* A token is a sequence of pieces: ":" is the separator piece.             *)

Sep == ":"

\* str(n) of the page numbers and listing ids
Numerals == <<"0", "1", "2", "3", "4", "5">>
Str(n) == Numerals[n + 1]

\* int(piece) as pydantic validates an int field: None when it is no numeral
ParseInt(piece) ==
    IF \E n \in 1..Len(Numerals) : Numerals[n] = piece
    THEN Some((CHOOSE n \in 1..Len(Numerals) : Numerals[n] = piece) - 1)
    ELSE None

\* An encoding that writes None as the numeral 0
EncodeNoneAsZero(v) == IF v = None THEN <<"0">> ELSE <<Str(v[1])>>

\* CallbackData._encode_value: None is the empty string, an int its numeral
EncodeValue(v) == IF v = None THEN <<>> ELSE <<Str(v[1])>>

\* CallbackData.pack
pack(cb) ==
    <<cb.prefix, Sep, cb.action>>
        \o (IF HasPage(cb.prefix) THEN <<Sep>> \o EncodeValue(cb.page) ELSE <<>>)
        \o (IF HasBookId(cb.prefix) THEN <<Sep>> \o EncodeValue(cb.book_id) ELSE <<>>)

\* str.split(":")
RECURSIVE Split(_)
Split(token) ==
    IF \A i \in DOMAIN token : token[i] # Sep
    THEN <<token>>
    ELSE LET i == CHOOSE j \in DOMAIN token :
                     token[j] = Sep /\ \A k \in 1..(j - 1) : token[k] # Sep
         IN <<SubSeq(token, 1, i - 1)>> \o Split(SubSeq(token, i + 1, Len(token)))

\* The result of a decoding that failed
DecodeError == <<>>

\* The number of fields of a class
FieldCount(prefix) ==
    1 + (IF HasPage(prefix) THEN 1 ELSE 0) + (IF HasBookId(prefix) THEN 1 ELSE 0)

\* A str field: the part as it is
StrField(part) == IF part = <<>> THEN "" ELSE part[1]

\* page: int = 1 -- the empty part is the default, any other part must be
\* an int
PageField(part) ==
    IF part = <<>> THEN Some(Some(1))
    ELSE IF Len(part) = 1 /\ ParseInt(part[1]) # None THEN Some(ParseInt(part[1]))
    ELSE None

\* book_id: int | None = None (browse, search) and book_id: int (manage)
BookIdField(prefix, part) ==
    IF part = <<>> THEN (IF prefix = "manage" THEN None ELSE Some(None))
    ELSE IF Len(part) = 1 /\ ParseInt(part[1]) # None THEN Some(ParseInt(part[1]))
    ELSE None

\* CallbackData.unpack of the class with the prefix: the instance in a
\* one-element sequence, or DecodeError (TypeError, ValueError)
unpack(prefix, token) ==
    LET parts == Split(token) IN
    IF Len(parts) - 1 # FieldCount(prefix) THEN DecodeError
    ELSE IF parts[1] # <<prefix>> THEN DecodeError
    ELSE LET page == IF HasPage(prefix) THEN PageField(parts[3]) ELSE Some(None)
             book_id == IF HasBookId(prefix)
                        THEN BookIdField(prefix, parts[Len(parts)])
                        ELSE Some(None)
         IN IF page = None \/ book_id = None THEN DecodeError
            ELSE <<Callback(prefix, StrField(parts[2]), page[1], book_id[1])>>

\* The callback data the keyboard builders attach to buttons
KeyboardCallbacks ==
    {Callback("confirm", a, None, None) : a \in {"confirm", "cancel"}}
        \cup {Callback("menu", a, None, None) : a \in {"post", "browse", "search", "mybooks"}}
        \cup {Callback(p, "contact", Some(page), Some(b)) :
                p \in {"browse", "search"}, page \in 1..MaxPage, b \in 1..MaxCatalog}
        \cup {Callback(p, "page", Some(page), None) :
                p \in {"browse", "search"}, page \in 1..MaxPage}
        \cup {Callback("manage", "mark_sold", None, Some(b)) : b \in 1..MaxCatalog}

\* Tokens no class decodes: a field is missing, the prefix is unknown, a
\* page is no int, the listing id of manage is missing, a field is extra
MalformedTokens ==
    {<<"confirm">>,
     <<"unknown", Sep, "confirm">>,
     <<"browse", Sep, "page", Sep, "x", Sep>>,
     <<"manage", Sep, "mark_sold", Sep>>,
     <<"confirm", Sep, "confirm", Sep, "1">>}

\* A filter of one class decodes a token
decode(prefix, token) ==
    /\ reply' = [kind |-> "decoded", token |-> token, prefix |-> prefix,
                 result |-> unpack(prefix, token)]
    /\ outbox' = <<>>
    /\ UNCHANGED <<fsmState, fsmData, users, books, confirmShown, dbSessions, chat>>

NextCodec ==
    \/ \E cb \in KeyboardCallbacks, prefix \in Prefixes : decode(prefix, pack(cb))
    \/ \E token \in MalformedTokens, prefix \in Prefixes : decode(prefix, token)

SpecCodec == Init /\ [][NextCodec]_vars

----------------------------------------------------------------------------
(* Callback events: the first registered handler whose filter decodes the  *)
(* token and accepts its action                                            *)

\* Tokens that a class decodes but whose action no keyboard attaches
UnknownActionTokens ==
    {<<"confirm", Sep, "edit">>,
     <<"menu", Sep, "edit">>,
     <<"browse", Sep, "edit", Sep, "1", Sep, "1">>,
     <<"manage", Sep, "edit", Sep, "1">>}

\* The tokens of the callback events
CallbackTokens ==
    {pack(cb) : cb \in KeyboardCallbacks} \cup MalformedTokens \cup UnknownActionTokens

\* CallbackData.filter(): the token unpacks; CallbackData.filter(F.action ==
\* action): and its action is the one named
Filter(prefix, token) == unpack(prefix, token) # DecodeError
FilterAction(prefix, token, action) ==
    Filter(prefix, token) /\ unpack(prefix, token)[1].action = action

\* The handler a callback event is routed to, in registration order
FirstFilter(token) ==
    IF Filter("confirm", token) THEN "finish_post_flow"
    ELSE IF Filter("menu", token) THEN "handle_main_menu"
    ELSE IF FilterAction("browse", token, "page") THEN "paginate_browse"
    ELSE IF FilterAction("browse", token, "contact") THEN "contact_seller"
    ELSE IF FilterAction("search", token, "page") THEN "paginate_search_results"
    ELSE IF FilterAction("search", token, "contact") THEN "contact_seller_from_search"
    ELSE IF FilterAction("manage", token, "mark_sold") THEN "mark_book_sold"
    ELSE "unhandled"

\* The class whose filter a handler is registered with
FilterPrefix(handler) ==
    CASE handler = "finish_post_flow" -> "confirm"
      [] handler = "handle_main_menu" -> "menu"
      [] handler \in {"paginate_browse", "contact_seller"} -> "browse"
      [] handler \in {"paginate_search_results", "contact_seller_from_search"} -> "search"
      [] handler = "mark_book_sold" -> "manage"
      [] OTHER -> "none"

\* The handler of each token and the callback_data it is called with (the
\* routing is a function of the token alone: explicit tables)
CallbackRouteTable == [token \in CallbackTokens |-> FirstFilter(token)] @@ <<>>
CallbackRoute(token) == CallbackRouteTable[token]
CallbackDataTable ==
    [token \in CallbackTokens |->
        IF FirstFilter(token) = "unhandled" THEN Callback("none", "", None, None)
        ELSE unpack(FilterPrefix(FirstFilter(token)), token)[1]] @@ <<>>
CallbackData(token) == CallbackDataTable[token]

\* callback_data.book_id in "if not book_id": 0 for None
BookIdOf(cb) == IF cb.book_id = None THEN 0 ELSE cb.book_id[1]

paginate_browse(u, page, fail) ==
    /\ outbox' = <<>>
    /\ IF fail THEN reply' = Raised
       ELSE \E o \in BrowseOrders(books) : reply' = BrowseReply(books, Max(1, page), o)
    /\ UNCHANGED <<fsmState, fsmData, users, books, confirmShown, dbSessions, chat>>

\* The rendered page that paginate_search_results puts in place of the
\* message whose button was pressed
SearchPageReply(tbl, search_query, page, o) ==
    LET view == render_search_page(tbl, search_query, page, o) IN
    [kind |-> view.text, query |-> search_query, page |-> page, book_id |-> 0,
     markup |-> IF view.buttons # <<>>
                THEN Some(search_results_keyboard(view.buttons, page, view.total_pages,
                                                  search_query))
                ELSE None]

\* paginate_search_results: message_query is the query of the result message
\* whose Prev/Next button was pressed (query.message); the callback data does
\* not carry it and the handler reads the query from the FSM data
paginate_search_results(u, message_query, page, fail) ==
    /\ outbox' = <<>>
    /\ LET search_query == Get(fsmData[u], "search_query") IN
       IF search_query = <<>>
       THEN /\ reply' = Reply("search_query_not_found")
            /\ UNCHANGED chat
       ELSE IF fail
       THEN /\ reply' = Raised
            /\ UNCHANGED chat
       ELSE /\ \E o \in SearchOrders(books, search_query) :
                  reply' = SearchPageReply(books, search_query, Max(1, page), o)
            /\ chat' = SetFor(chat, u, (chat[u] \ {message_query})
                                          \cup (IF HasPageButtons(reply'.markup)
                                                THEN {search_query} ELSE {}))
    /\ UNCHANGED <<fsmState, fsmData, users, books, confirmShown, dbSessions>>

\* No filter accepts the event: no handler runs and nothing is answered
unhandled_callback(u, token) ==
    /\ outbox' = <<>>
    /\ reply' = Reply("unhandled")
    /\ UNCHANGED <<fsmState, fsmData, users, books, confirmShown, dbSessions, chat>>

\* A callback event of user u with the token
callback_query(u, token, fail, delivery) ==
    \/ /\ CallbackRoute(token) = "finish_post_flow"
       /\ delivery = "ok"
       /\ finish_post_flow(u, CallbackData(token).action, fail)
       /\ Len(books') <= MaxBooks
    \/ /\ CallbackRoute(token) = "handle_main_menu"
       /\ delivery = "ok"
       /\ handle_main_menu(u, CallbackData(token).action, fail)
    \/ /\ CallbackRoute(token) = "paginate_browse"
       /\ delivery = "ok"
       /\ paginate_browse(u, CallbackData(token).page[1], fail)
    \/ /\ CallbackRoute(token) = "contact_seller"
       /\ contact_seller(u, BookIdOf(CallbackData(token)), fail, delivery)
    \/ /\ CallbackRoute(token) = "paginate_search_results"
       /\ delivery = "ok"
       /\ \E message_query \in Queries :
             paginate_search_results(u, message_query, CallbackData(token).page[1], fail)
    \/ /\ CallbackRoute(token) = "contact_seller_from_search"
       /\ contact_seller_from_search(u, BookIdOf(CallbackData(token)), fail, delivery)
    \/ /\ CallbackRoute(token) = "mark_book_sold"
       /\ delivery = "ok"
       /\ mark_book_sold(u, CallbackData(token).book_id[1], fail)
    \/ /\ CallbackRoute(token) = "unhandled"
       /\ ~fail /\ delivery = "ok"
       /\ unhandled_callback(u, token)

NextCallback ==
    \/ \E u \in Sellers : FlowMessage(u)
    \/ \E u \in UserIds, token \in CallbackTokens, fail \in BOOLEAN, delivery \in Deliveries :
          callback_query(u, token, fail, delivery)

SpecCallback == Init /\ [][NextCallback]_vars

----------------------------------------------------------------------------
(* Browsing a catalog that sellers sell out: the browse command, the menu  *)
(* text, the menu button and the Prev/Next buttons                          *)

BrowseTexts == {<<"/browse">>, <<"Browse books">>}

NextBrowse ==
    \/ \E u \in UserIds, t \in BrowseTexts, fail \in BOOLEAN : browse_books(u, t, fail)
    \/ \E u \in UserIds, fail \in BOOLEAN : handle_main_menu(u, "browse", fail)
    \/ \E u \in UserIds, page \in 0..MaxPage, fail \in BOOLEAN : paginate_browse(u, page, fail)
    \/ \E u \in UserIds, b \in 1..MaxCatalog : mark_book_sold(u, b, FALSE)

SpecBrowse == InitCatalog /\ [][NextBrowse]_vars

----------------------------------------------------------------------------
(* Events as seen by the properties *)

\* Position of a stage in the create-listing flow, 0 outside it
StageIndex(stage) ==
    IF stage \in PostStageSet
    THEN CHOOSE i \in 1..Len(PostStages) : PostStages[i] = stage
    ELSE 0

\* User u starts the create-listing flow: by command, menu text or menu button
PostStartEvent(u) ==
    \/ \E t \in PostTexts : Message(u, t)
    \/ \E fail \in BOOLEAN : handle_main_menu(u, "post", fail)

\* User u starts the search flow: by command, menu text or menu button
SearchTexts == {T_search, <<"Search">>}
SearchStartEvent(u) ==
    \/ \E t \in SearchTexts : Message(u, t)
    \/ handle_main_menu(u, "search", FALSE)

----------------------------------------------------------------------------
(* C1 *)

\* C1: in the create-listing flow the stage of a user changes only along
\* title -> author -> condition -> price -> description -> confirm, one stage
\* per free-text message of that user; a stage of the flow is otherwise
\* entered only at title, by a flow start.
C1_StageOrder ==
    [][\A u \in UserIds :
         (fsmState'[u] # fsmState[u] /\ fsmState'[u] \in PostStageSet) =>
            \/ /\ fsmState'[u] = "title"
               /\ PostStartEvent(u)
            \/ /\ fsmState[u] \in PostStageSet
               /\ StageIndex(fsmState'[u]) = StageIndex(fsmState[u]) + 1
               /\ \E t \in AllInputs : Message(u, t)]_vars

\* A user went through every stage and is asked to confirm
C1_Witness ==
    \E u \in UserIds :
        /\ fsmState[u] = "confirm"
        /\ reply.kind = "confirm_summary"
        /\ DOMAIN fsmData[u] = {"title", "author", "condition", "price", "description"}

----------------------------------------------------------------------------
(* C2 *)

\* C2: a listing row is added only by a confirm callback handled while the
\* acting user's stage is awaiting-confirmation.
C2_CreatedOnlyAtConfirmStage ==
    [][Len(books') > Len(books) =>
          \E u \in UserIds :
             /\ fsmState[u] = "confirm"
             /\ finish_post_flow(u, "confirm", FALSE)]_vars

----------------------------------------------------------------------------
(* C3 *)

\* The text fails the validation of the stage
FailsValidation(stage, t) ==
    \/ stage = "title" /\ Strip(t) = <<>>
    \/ stage = "condition" /\ Casefold(Strip(t)) \notin ConditionLabels
    \/ stage = "price" /\ (Decimal(Strip(t)) = None \/ Decimal(Strip(t))[1] < 0)
    \/ stage = "query" /\ Strip(t) = <<>>

\* The re-prompt of a stage
Reprompt(stage) ==
    CASE stage = "title" -> "please_title"
      [] stage = "condition" -> "please_condition"
      [] stage = "price" -> "please_price"
      [] stage = "query" -> "please_query"

\* The text is a command or a start text that an earlier handler takes
TakenByEarlierHandler(stage, t) ==
    \/ FirstWord(t) \in {"/start", "/help", "/cancel", "/post"}
    \/ Casefold(t) \in POST_COMMANDS
    \/ /\ stage = "query"
       /\ \/ FirstWord(t) \in {"/browse", "/search", "/mybooks"}
          \/ Casefold(t) \in BROWSE_COMMANDS \cup SEARCH_COMMANDS \cup MY_LISTINGS_COMMANDS

\* The free texts that fail the validation of a stage
InvalidTexts ==
    [stage \in Stages |->
        {t \in AllInputs : FailsValidation(stage, t) /\ ~TakenByEarlierHandler(stage, t)}]

\* C3: a free-text message that fails the validation of its stage is answered
\* with the re-prompt of the stage and leaves the stage and the answer bag of
\* the user as they were.
C3_InvalidInputKeepsState ==
    [][\A u \in UserIds : \A t \in InvalidTexts[fsmState[u]] :
         Message(u, t) =>
            /\ reply'.kind = Reprompt(fsmState[u])
            /\ fsmState'[u] = fsmState[u]
            /\ fsmData'[u] = fsmData[u]]_vars

\* An invalid price was just refused at the price stage
C3_Witness ==
    \E u \in UserIds :
        /\ fsmState[u] = "price"
        /\ reply.kind = "please_price"
        /\ "price" \notin DOMAIN fsmData[u]

----------------------------------------------------------------------------
(* C4 *)

\* C4: /cancel in any stage of the create-listing flow and in the search
\* query stage ends the flow: the stage is none and the answer bag is empty
\* (so the command text is stored nowhere).
C4_CancelEverywhere ==
    [][\A u \in UserIds :
         (fsmState[u] # "none" /\ Message(u, <<"/cancel">>)) =>
            /\ fsmState'[u] = "none"
            /\ fsmData'[u] = EmptyBag
            /\ reply'.kind = "canceled"]_vars

\* A flow was just cancelled
C4_Witness ==
    /\ reply.kind = "canceled"
    /\ \E u \in UserIds : fsmState[u] = "none" /\ fsmData[u] = EmptyBag /\ confirmShown[u]

----------------------------------------------------------------------------
(* C5 *)

\* C5: a start of the create-listing flow or of the search flow, issued while
\* a flow is active, starts the new flow: the stage is the first stage of the
\* new flow and the bag holds nothing (a start that raised is left aside).
C5_LastStartWins ==
    [][\A u \in UserIds :
         /\ (fsmState[u] # "none" /\ SearchStartEvent(u)) =>
               (fsmState'[u] = "query" /\ fsmData'[u] = EmptyBag)
         /\ (fsmState[u] # "none" /\ reply' # Raised /\ PostStartEvent(u)) =>
               (fsmState'[u] = "title" /\ fsmData'[u] = EmptyBag)]_vars

----------------------------------------------------------------------------
(* C6 *)

AnswersBefore(stage) == {PostStages[i] : i \in 1..(StageIndex(stage) - 1)}

----------------------------------------------------------------------------
(* C7 *)

\* The response is the result of a catalog search for the query and page
IsSearchFor(r, query, page) ==
    /\ r.kind \in {"search_empty", "search_results"}
    /\ r.query = query
    /\ r.page = page

\* The non-empty texts that are not slash commands
NonEmptyPlainTexts ==
    {t \in AllInputs :
        /\ Strip(t) # <<>>
        /\ FirstWord(t) \notin {"/start", "/help", "/cancel", "/post",
                                "/browse", "/search", "/mybooks"}}

\* The non-empty texts that no handler registered before handle_search_query
\* takes in the query stage
NonEmptyFreeTexts ==
    {t \in AllInputs : Strip(t) # <<>> /\ ~TakenByEarlierHandler("query", t)}

\* C7 as stated: in the query stage any non-empty text (commands with a
\* leading slash aside) runs the search and ends the flow.
C7_AnyTextSearches ==
    [][\A u \in UserIds :
         fsmState[u] = "query" =>
            \A t \in NonEmptyPlainTexts :
               Message(u, t) =>
                  /\ fsmState'[u] = "none"
                  /\ (IsSearchFor(reply', Strip(t), 1) \/ reply' = Raised)]_vars

\* C7 amended: in the query stage any non-empty text that is neither a
\* command nor a menu text runs the search for page 1 with the stripped text
\* and ends the flow in the same event.
C7_FreeTextSearches ==
    [][\A u \in UserIds :
         fsmState[u] = "query" =>
            \A t \in NonEmptyFreeTexts :
               Message(u, t) =>
                  /\ fsmState'[u] = "none"
                  /\ (IsSearchFor(reply', Strip(t), 1) \/ reply' = Raised)]_vars

\* A search for the stripped text has just run and the flow is over
C7_Witness ==
    /\ IsSearchFor(reply, <<"Good">>, 1)
    /\ \E u \in UserIds : fsmState[u] = "none" /\ Get(fsmData[u], "search_query") = <<"Good">>

----------------------------------------------------------------------------
(* C8, C9, C10 *)

\* User u is the seller of the existing listing b
IsSeller(u, b) ==
    /\ b \in 1..Len(books)
    /\ UserRow(users, u) # 0
    /\ books[b].seller_id = UserRow(users, u)

\* C8: mark-sold by a user who is not the seller of the listing changes no
\* listing and is answered with the denial, for an unsold and for a sold
\* listing alike.
C8_NonOwnerDenied ==
    [][\A u \in UserIds : \A b \in 1..Len(books) : \A fail \in BOOLEAN :
         (~IsSeller(u, b) /\ mark_book_sold(u, b, fail)) =>
            /\ books' = books
            /\ reply'.kind \notin {"already_sold", "marked_sold"}
            /\ (~fail => reply'.kind = "cannot_modify")]_vars

\* A listing that is sold was the target of a denied mark-sold
C8_Witness ==
    /\ reply.kind = "cannot_modify"
    /\ reply.book_id \in 1..Len(books)
    /\ books[reply.book_id].is_sold

\* C9: mark-sold by the seller sets is_sold on an unsold listing, and on a
\* sold listing reports "already sold" and changes no listing.
C9_OwnerIdempotent ==
    [][\A u \in UserIds : \A b \in 1..Len(books) :
         (IsSeller(u, b) /\ mark_book_sold(u, b, FALSE)) =>
            IF books[b].is_sold
            THEN books' = books /\ reply'.kind = "already_sold"
            ELSE /\ books' = [books EXCEPT ![b].is_sold = TRUE]
                 /\ reply'.kind = "marked_sold"]_vars

\* The seller pressed mark-sold again on a sold listing
C9_Witness ==
    /\ reply.kind = "already_sold"
    /\ reply.book_id \in 1..Len(books)
    /\ books[reply.book_id].is_sold

\* C10: no listing is removed; of an existing listing only is_sold changes,
\* only from false to true, and only in a mark-sold event of its seller.
C10_ListingsImmutable ==
    [][/\ Len(books') >= Len(books)
       /\ \A b \in 1..Len(books) :
            /\ [books'[b] EXCEPT !.is_sold = FALSE] = [books[b] EXCEPT !.is_sold = FALSE]
            /\ books[b].is_sold => books'[b].is_sold
            /\ books'[b].is_sold # books[b].is_sold =>
                  \E u \in UserIds : mark_book_sold(u, b, FALSE) /\ IsSeller(u, b)]_vars

\* A listing was sold while another user has a users row
C10_Witness ==
    /\ Len(users) > 1
    /\ \E b \in 1..Len(books) : books[b].is_sold /\ reply.kind = "marked_sold"

----------------------------------------------------------------------------
(* C11 *)

\* C11: listing creation at confirm is atomic: when the transaction fails
\* the books and users tables are as before; when it succeeds the books table
\* is the old one plus exactly one row, whose id is new.
C11_CreationAtomic ==
    [][\A fail \in BOOLEAN :
         (PriceDataValid(fsmData[Seller]) /\ finish_post_flow(Seller, "confirm", fail)) =>
            /\ fail => reply' = Raised
            /\ IF reply' = Raised
               THEN books' = books /\ users' = users
               ELSE /\ reply'.kind = "listed"
                    /\ Len(books') = Len(books) + 1
                    /\ SubSeq(books', 1, Len(books)) = books
                    /\ reply'.book_id = Len(books')
                    /\ reply'.book_id \notin 1..Len(books)]_vars

\* A second listing was created and got the id after the first
C11_Witness ==
    /\ reply.kind = "listed"
    /\ Len(books) = 2
    /\ reply.book_id = 2

----------------------------------------------------------------------------
(* C12, C13 *)

\* C12: an event whose handling fails leaves the stage and the answer bag of
\* every user as they were before the event.
C12_FailureKeepsSession ==
    [][reply' = Raised => (fsmState' = fsmState /\ fsmData' = fsmData)]_vars

\* error_handler: the exception is logged and nothing is sent to the user,
\* so what the user receives is the response of a handler that did not raise
UserReceives(r) == IF r = Raised THEN "nothing" ELSE r.kind

\* C13: the response to an event whose handling fails is a generic failure
\* message to the user.
C13_FailureAnswered ==
    [][reply' = Raised => UserReceives(reply') = "generic_failure"]_vars

----------------------------------------------------------------------------
(* C14 *)

\* The number a text writes in decimal notation, in thousandths; None when
\* the text is not a numeral
Numeral(t) ==
    CASE t = T_price -> Some(12500)
      [] t = T_round -> Some(12345)
      [] t = T_zero -> Some(0)
      [] t = T_neg -> Some(-1000)
      [] OTHER -> None

\* A non-negative value rounded half-up to two decimals (in thousandths)
RoundHalfUp(v) == CHOOSE q \in {10 * k : k \in 0..2000} : q - 5 <= v /\ v < q + 5

\* C14: a negative or non-numeric text at the price stage is answered with
\* the re-prompt and the stage stays at price; the listing persisted at
\* confirm has the accepted price rounded half-up to two decimals, >= 0.
C14_PriceRoundedOrRejected ==
    [][/\ \A t \in PostAnswers("price") :
            (fsmState[Seller] = "price" /\ Message(Seller, t)) =>
               \/ Numeral(Strip(t)) # None /\ Numeral(Strip(t))[1] >= 0
               \/ fsmState'[Seller] = "price" /\ reply'.kind = "please_price"
       /\ reply'.kind = "listed" /\ Len(books') > Len(books) =>
            /\ Numeral(fsmData[Seller]["price"]) # None
            /\ books'[Len(books')].price = RoundHalfUp(Numeral(fsmData[Seller]["price"])[1])
            /\ books'[Len(books')].price >= 0]_vars

----------------------------------------------------------------------------
(* C15 *)

\* The answer is "skip" in some letter case
IsSkipAnswer(t) == Strip(t) \in {<<"skip">>, <<"SKIP">>, <<"Skip">>}

\* The answer is a valid input of the stage
ValidAnswer(stage, t) ==
    CASE stage = "title" -> Strip(t) # <<>>
      [] stage = "condition" -> Strip(t) \in {<<"Good">>}
      [] stage = "price" -> Numeral(Strip(t)) # None /\ Numeral(Strip(t))[1] >= 0
      [] OTHER -> TRUE

\* The value a valid answer gives to the listing
AnswerOf(stage, t) ==
    CASE stage = "condition" -> "good"
      [] stage \in {"author", "description"} ->
            IF IsSkipAnswer(t) THEN None ELSE Some(Strip(t))
      [] OTHER -> Strip(t)

\* The listing that a complete bag of valid answers describes
ListingOf(data, seller_id) ==
    [title |-> data["title"],
     author |-> data["author"],
     price |-> RoundHalfUp(Numeral(data["price"])[1]),
     condition |-> data["condition"],
     description |-> data["description"],
     is_sold |-> FALSE,
     seller_id |-> seller_id]

\* C15: every valid answer of the flow is stored under its stage and moves
\* the flow one stage on; the confirmation of a complete bag of valid answers
\* appends exactly one listing with these answers (author and description
\* null exactly for "skip" in any letter case, price rounded to cents, not
\* sold, seller = the confirming user) and ends the flow.
C15_FlowYieldsListing ==
    [][/\ \A i \in 1..5 : \A t \in PostAnswers(PostStages[i]) :
            (/\ fsmState[Seller] = PostStages[i]
             /\ ValidAnswer(PostStages[i], t)
             /\ Message(Seller, t)) =>
               /\ fsmState'[Seller] = PostStages[i + 1]
               /\ fsmData'[Seller] = Put(fsmData[Seller], PostStages[i], AnswerOf(PostStages[i], t))
       /\ (/\ fsmState[Seller] = "confirm"
           /\ Numeral(fsmData[Seller]["price"]) # None
           /\ finish_post_flow(Seller, "confirm", FALSE)) =>
               /\ books' = Append(books, ListingOf(fsmData[Seller], UserRow(users, Seller)))
               /\ users[books'[Len(books')].seller_id] = Seller
               /\ fsmState'[Seller] = "none"
               /\ fsmData'[Seller] = EmptyBag
               /\ reply'.kind = "listed"]_vars

\* The flow title, "SKIP", "Good", "12.345", a description, confirm has just
\* produced its listing
C15_Witness ==
    /\ reply.kind = "listed"
    /\ fsmState[Seller] = "none"
    /\ books[reply.book_id] =
          [title |-> <<"Good">>, author |-> None, price |-> 12350, condition |-> "good",
           description |-> Some(<<"Good">>), is_sold |-> FALSE, seller_id |-> 1]

----------------------------------------------------------------------------
(* C16 .. C20: the catalog queries *)

\* The response is a page of the catalog
IsPage(r) == r.kind \in {"browse", "search"}

\* The listings a request matches, in the catalog of the request
MatchingOf(r) == IF r.kind = "browse" THEN Unsold(books) ELSE search_books(books, r.query)

\* max(1, ceil(total / per_page))
CeilPages(total, per_page) ==
    Max(1, CHOOSE k \in 0..total : k * per_page >= total /\ (k = 0 \/ (k - 1) * per_page < total))

\* C16: a page of browse or search has total = the number of matching unsold
\* listings, total_pages = max(1, ceil(total / per_page)) and exactly
\* min(per_page, max(0, total - (page - 1) * per_page)) items; a page beyond
\* total_pages is empty with the same total and total_pages.
C16_PageShape ==
    [][IsPage(reply') =>
         LET total == Cardinality(MatchingOf(reply')) IN
         /\ reply'.total = total
         /\ reply'.total_pages = CeilPages(total, reply'.per_page)
         /\ Len(reply'.items) =
               Min(reply'.per_page, Max(0, total - (reply'.page - 1) * reply'.per_page))
         /\ reply'.page > reply'.total_pages => reply'.items = <<>>]_vars

\* The last page of three listings, two per page, holds one listing
C16_Witness ==
    /\ reply.kind = "browse"
    /\ reply.per_page = 2 /\ reply.page = 2
    /\ reply.total = 3 /\ reply.total_pages = 2
    /\ Len(reply.items) = 1

\* created_at descending, rows of equal created_at in insertion order
StableOrder(tbl, rows) ==
    CHOOSE o \in Orderings(tbl, rows) :
        \A i, j \in DOMAIN o :
            (i < j /\ tbl[o[i]].created_at = tbl[o[j]].created_at) => o[i] < o[j]

\* C17: the items of a page are the page's slice of the one order "created_at
\* descending, equal created_at in insertion order" of the matching
\* listings.
C17_StableOrder ==
    [][IsPage(reply') =>
         reply'.items =
            OffsetLimit(StableOrder(books, MatchingOf(reply')), reply'.page, reply'.per_page)]_vars

\* The needle occurs in the hay as a literal run of tokens, ignoring case
Contains(hay, needle) ==
    \E i \in 0..(Len(hay) - Len(needle)) :
        SubSeq(Casefold(hay), i + 1, i + Len(needle)) = Casefold(needle)

\* The unsold listings whose title, author or description contains the
\* trimmed query literally
LiteralMatches(tbl, query) ==
    {i \in 1..Len(tbl) :
        /\ ~tbl[i].is_sold
        /\ \/ Contains(tbl[i].title, Strip(query))
           \/ (tbl[i].author # None /\ Contains(tbl[i].author[1], Strip(query)))
           \/ (tbl[i].description # None /\ Contains(tbl[i].description[1], Strip(query)))}

\* C18: a search with a non-empty query finds exactly the unsold listings
\* whose title, author or description contains the trimmed query as a
\* literal substring, ignoring letter case.
C18_LiteralSubstring ==
    [][(reply'.kind = "search" /\ Strip(reply'.query) # <<>>) =>
         /\ reply'.total = Cardinality(LiteralMatches(books, reply'.query))
         /\ \A k \in 1..Len(reply'.items) :
               reply'.items[k] \in LiteralMatches(books, reply'.query)]_vars

\* C19: a search with an empty or whitespace-only query returns no items,
\* total 0 and total_pages 1 and issues no storage query, so a storage
\* failure cannot hit it.
C19_EmptyQueryNoStorage ==
    [][/\ (reply'.kind = "search" /\ Strip(reply'.query) = <<>>) =>
            /\ reply'.items = <<>>
            /\ reply'.total = 0
            /\ reply'.total_pages = 1
            /\ reply'.queries = 0
       /\ \A query \in {<<>>, <<SP>>} :
            search(query, 1, 1, TRUE) => (reply'.kind = "search" /\ reply'.queries = 0)]_vars

\* A whitespace-only search over a catalog with unsold listings
C19_Witness ==
    /\ reply.kind = "search"
    /\ reply.query = <<SP>>
    /\ reply.total = 0
    /\ Unsold(books) # {}

\* C20: a page of browse or search holds no sold listing and its total
\* counts none; contact-seller for a sold listing is answered "no longer
\* available".
C20_SoldIsGone ==
    [][/\ IsPage(reply') =>
            /\ \A k \in 1..Len(reply'.items) : ~books[reply'.items[k]].is_sold
            /\ reply'.total = Cardinality({i \in MatchingOf(reply') : ~books[i].is_sold})
       /\ \A b \in 1..Len(books) :
            (/\ books[b].is_sold
             /\ \E delivery \in Deliveries :
                   \/ contact_seller(Buyer, b, FALSE, delivery)
                   \/ contact_seller_from_search(Buyer, b, FALSE, delivery)) =>
               reply'.kind = "no_longer_available"]_vars

\* A browse page after a listing was sold: the listing is not counted
C20_Witness ==
    /\ reply.kind = "browse"
    /\ \E b \in 1..Len(books) : books[b].is_sold
    /\ reply.total = Cardinality(Unsold(books))
    /\ reply.total > 0

----------------------------------------------------------------------------
(* C24 .. C26: contacting the seller *)

\* A contact-seller event of user u on listing b
ContactEvent(u, b, fail, delivery) ==
    \/ contact_seller(u, b, fail, delivery)
    \/ contact_seller_from_search(u, b, fail, delivery)

\* The notifications to sellers among the messages sent
Interests(box) == {i \in DOMAIN box : box[i].text = "interest"}

\* The listing is there and unsold
Available(b) == b \in 1..Len(books) /\ ~books[b].is_sold

\* C24: a contact-seller event on an existing unsold listing ends with the
\* buyer told that contact was sent, whatever the delivery of the
\* notification to the seller did; no error leaves the handler.
C24_DeliveryFailureSwallowed ==
    [][\A u \in UserIds, b \in 1..MaxContactBooks, delivery \in Deliveries :
         (Available(b) /\ ContactEvent(u, b, FALSE, delivery)) =>
            reply'.kind = "contact_sent"]_vars

\* C25: a contact-seller event attempts the notification at most once, after
\* its transaction committed, and to the seller of the targeted listing; a
\* failed delivery is not retried and a failed transaction sends nothing.
C25_NotifiedOnceAfterCommit ==
    [][\A u \in UserIds, b \in 0..(MaxContactBooks + 1), fail \in BOOLEAN, delivery \in Deliveries :
         ContactEvent(u, b, fail, delivery) =>
            /\ Cardinality(Interests(outbox')) <= 1
            /\ fail => outbox' = <<>>
            /\ \A i \in Interests(outbox') :
                  /\ UserRow(users', u) # 0
                  /\ Available(b)
                  /\ outbox'[i].about = b
                  /\ outbox'[i].to = users[books[b].seller_id]]_vars

\* A new buyer's contact whose notification could not be delivered
C25_Witness ==
    /\ Len(outbox) = 2
    /\ outbox[2].text = "interest" /\ outbox[2].outcome = "TelegramForbiddenError"
    /\ outbox[2].to = 1 /\ outbox[1].to = 2
    /\ reply.kind = "contact_sent"

\* The answer and the effects of a contact-seller event on a listing that is
\* not available
StaleContact(kind) ==
    /\ reply'.kind = kind
    /\ outbox' = <<>>
    /\ books' = books

\* C26: a contact-seller event whose listing id does not exist or whose
\* listing is sold is answered "no longer available", notifies no seller,
\* reveals no seller contact and changes no listing.
C26_StaleIsNoLongerAvailable ==
    [][\A u \in UserIds, b \in 0..(MaxContactBooks + 1), delivery \in Deliveries :
         (~Available(b) /\ ContactEvent(u, b, FALSE, delivery)) =>
            StaleContact("no_longer_available")]_vars

\* C26 (amended): a contact-seller event whose listing id is positive and
\* does not exist, or whose listing is sold, is answered "no longer
\* available"; one that carries no listing id or the id 0 is answered
\* "missing book information"; in both cases no seller is notified, no seller
\* contact is revealed and no listing changes.
C26_StaleOrMissing ==
    [][\A u \in UserIds, b \in 0..(MaxContactBooks + 1), delivery \in Deliveries :
         (~Available(b) /\ ContactEvent(u, b, FALSE, delivery)) =>
            StaleContact(IF b = 0 THEN "missing_book" ELSE "no_longer_available")]_vars

\* A contact on a sold listing and on an id that does not exist
C26_Witness ==
    /\ reply.kind = "no_longer_available"
    /\ \/ reply.book_id > Len(books)
       \/ (reply.book_id \in 1..Len(books) /\ books[reply.book_id].is_sold)
    /\ outbox = <<>>

----------------------------------------------------------------------------
(* C27: the users table *)

\* C27: every handled event of a user upserts the user's row: after the
\* event a users row of the sender exists.
C27_EveryEventUpserts ==
    [][\A u \in UserIds, t \in AllInputs :
         (Message(u, t) /\ reply' # Raised /\ reply'.kind # "unhandled") =>
            UserRow(users', u) # 0]_vars

----------------------------------------------------------------------------
(* C29, C30: one user's events in order, two users' events interleaved *)

\* C29: a confirm action that follows the confirm action which created the
\* listing finds no stored answers: it is answered with an error and creates
\* nothing, so the two create exactly one listing.
C29_SecondConfirmCreatesNothing ==
    [][/\ (finish_post_flow(Seller, "confirm", FALSE) /\ reply'.kind = "listed") =>
            /\ Len(books') = Len(books) + 1
            /\ fsmData'[Seller] = EmptyBag
       /\ (reply.kind = "listed" /\ \E fail \in BOOLEAN : finish_post_flow(Seller, "confirm", fail)) =>
            /\ reply'.kind = "invalid_price_data"
            /\ books' = books]_vars

\* The second confirm was answered with the error, one listing exists
C29_Witness ==
    /\ reply.kind = "invalid_price_data"
    /\ Len(books) = 1
    /\ fsmState[Seller] = "none" /\ fsmData[Seller] = EmptyBag

----------------------------------------------------------------------------
(* C28: the users table under concurrently handled events *)

\* C28: the users table holds at most one row per telegram id and no row is
\* ever deleted, for every interleaving of the transactions of the events
\* handled concurrently.
C28_OneRowPerUser ==
    /\ [](\A u \in UserIds : Cardinality(RowsOf(users, u)) <= 1)
    /\ [][Len(users') >= Len(users) /\ SubSeq(users', 1, Len(users)) = users]_vars

----------------------------------------------------------------------------
(* C21: the callback data round trip *)

\* C21: for every callback data a keyboard builder attaches, decoding its
\* token with its own class gives the callback data back, and decoding it
\* with any other class fails.
C21_CodecRoundTrip ==
    reply.kind = "decoded" =>
        \A cb \in KeyboardCallbacks :
            reply.token = pack(cb) =>
                reply.result = IF reply.prefix = cb.prefix THEN <<cb>> ELSE DecodeError

\* A page button of the browse keyboard decoded by the browse class
C21_Witness ==
    /\ reply.kind = "decoded"
    /\ reply.prefix = "browse"
    /\ reply.result = <<Callback("browse", "page", Some(2), None)>>

----------------------------------------------------------------------------
(* C22, C23: callback events that no keyboard produced *)

\* Neither the sessions nor the storage change
NothingMutated ==
    /\ fsmState' = fsmState /\ fsmData' = fsmData
    /\ users' = users /\ books' = books

\* C22: a callback event whose token is malformed or of an unknown kind
\* raises no error, changes neither session nor storage, and is answered with
\* "invalid action".
C22_MalformedIsReported ==
    [][\A u \in UserIds, token \in MalformedTokens :
         callback_query(u, token, FALSE, "ok") =>
            /\ reply' # Raised
            /\ NothingMutated
            /\ reply'.kind = "invalid_action"]_vars

\* C23: a callback event that decodes under a known prefix with an action
\* that is none of the prefix's actions creates no listing, marks nothing
\* sold and leaves the session unchanged.
C23_UnknownActionFailsClosed ==
    [][\A u \in UserIds, token \in UnknownActionTokens, fail \in BOOLEAN :
         callback_query(u, token, fail, "ok") =>
            /\ books' = books
            /\ fsmState' = fsmState /\ fsmData' = fsmData]_vars

----------------------------------------------------------------------------
(* The post flow answered from the reply keyboards: at the condition stage  *)
(* the user presses the buttons of condition_keyboard                       *)

KeyboardTexts(stage) ==
    TwoUserTexts(stage) \cup (IF stage = "condition" THEN condition_keyboard ELSE {})

NextKeyboard ==
    \/ \E u \in UserIds : \E t \in KeyboardTexts(fsmState[u]) : handle_cancel(u, t)
    \/ \E u \in UserIds : \E t \in KeyboardTexts(fsmState[u]) : start_post_flow(u, t, FALSE)
    \/ \E u \in UserIds : \E t \in KeyboardTexts(fsmState[u]) : collect_title(u, t)
    \/ \E u \in UserIds : \E t \in KeyboardTexts(fsmState[u]) : collect_author(u, t)
    \/ \E u \in UserIds : \E t \in KeyboardTexts(fsmState[u]) : collect_condition(u, t)
    \/ \E u \in UserIds : \E t \in KeyboardTexts(fsmState[u]) : collect_price(u, t)
    \/ \E u \in UserIds : \E t \in KeyboardTexts(fsmState[u]) : collect_description(u, t)

SpecKeyboard == Init /\ [][NextKeyboard]_vars

----------------------------------------------------------------------------
(* Searching a catalog and paging through the results, with flow starts,   *)
(* /start and /cancel in between                                            *)

SearchInputs == {<<"/start">>, <<"/cancel">>, <<"/post">>, T_search} \cup Queries

NextSearch ==
    \/ \E t \in SearchInputs : handle_start(Buyer, t, FALSE)
    \/ \E t \in SearchInputs : handle_cancel(Buyer, t)
    \/ \E t \in SearchInputs : start_post_flow(Buyer, t, FALSE)
    \/ \E t \in SearchInputs : start_search(Buyer, t)
    \/ \E t \in SearchInputs : handle_search_query(Buyer, t, FALSE)
    \/ \E t \in SearchInputs : collect_title(Buyer, t)
    \/ \E message_query \in chat[Buyer], page \in 1..MaxPage :
          paginate_search_results(Buyer, message_query, page, FALSE)

SpecSearch == InitCatalog /\ [][NextSearch]_vars

----------------------------------------------------------------------------
(* Confirm events handled as concurrent tasks: each await of                *)
(* finish_post_flow is a point where another task of the dispatcher runs.   *)
(* Every user completes one flow.                                           *)

\* data = await state.get_data() and the price check
confirm_get_data(k, u) ==
    /\ k \notin DOMAIN dbSessions
    /\ confirmShown[u]
    /\ outbox' = <<>>
    /\ IF ~PriceDataValid(fsmData[u])
       THEN /\ reply' = Reply("invalid_price_data")
            /\ UNCHANGED dbSessions
       ELSE /\ dbSessions' = dbSessions @@ (k :> [u |-> u, pc |-> "session", data |-> fsmData[u]])
            /\ UNCHANGED reply
    /\ UNCHANGED <<fsmState, fsmData, users, books, confirmShown, chat>>

\* async with session_scope(): ensure_user, session.add(book), flush, commit
confirm_session(k) ==
    /\ k \in DOMAIN dbSessions
    /\ dbSessions[k].pc = "session"
    /\ outbox' = <<>>
    /\ IF {"title", "condition"} \ DOMAIN dbSessions[k].data # {}
       THEN /\ reply' = Raised
            /\ dbSessions' = CloseSession(k)
            /\ UNCHANGED <<users, books>>
       ELSE /\ users' = ensure_user(users, dbSessions[k].u)
            /\ books' = Append(books, NewBook(dbSessions[k].data, UserRow(users', dbSessions[k].u)))
            /\ dbSessions' = [dbSessions EXCEPT ![k].pc = "clear"]
            /\ UNCHANGED reply
    /\ UNCHANGED <<fsmState, fsmData, confirmShown, chat>>

\* await state.clear() and the "Book listed!" answer
confirm_clear(k) ==
    /\ k \in DOMAIN dbSessions
    /\ dbSessions[k].pc = "clear"
    /\ outbox' = <<>>
    /\ fsmState' = SetFor(fsmState, dbSessions[k].u, "none")
    /\ fsmData' = SetFor(fsmData, dbSessions[k].u, EmptyBag)
    /\ reply' = Reply("listed")
    /\ dbSessions' = CloseSession(k)
    /\ UNCHANGED <<users, books, confirmShown, chat>>

NextConfirm ==
    \/ \E u \in UserIds : ~confirmShown[u] /\ FlowMessage(u)
    \/ \E k \in Tasks, u \in UserIds : confirm_get_data(k, u)
    \/ \E k \in Tasks : confirm_session(k)
    \/ \E k \in Tasks : confirm_clear(k)

SpecConfirm == Init /\ [][NextConfirm]_vars

----------------------------------------------------------------------------
(* A browse or search request as a task: paginate_books and search_books    *)
(* execute the item statement and the count statement one after the other   *)
(* in one session, whose isolation level session.py leaves at the default   *)
(* of the database (read committed: every statement sees the rows committed *)
(* before it started). Sellers mark listings sold in between.               *)

PageKinds == {"browse", "search"}

\* The rows a request matches in the table
PageRows(tbl, kind, query) ==
    IF kind = "browse" THEN Unsold(tbl) ELSE search_books(tbl, query)

\* result = await session.execute(stmt): the item statement
select_items(k, kind, query, page) ==
    /\ k \notin DOMAIN dbSessions
    /\ kind = "browse" => query = <<>>
    /\ outbox' = <<>>
    /\ IF kind = "search" /\ EmptyQuery(query)
       THEN /\ reply' = PageReply(kind, query, page, PAGE_SIZE, Result(<<>>, 0, 1, 0))
            /\ UNCHANGED dbSessions
       ELSE /\ \E o \in Orderings(books, PageRows(books, kind, query)) :
                  dbSessions' = dbSessions @@
                      (k :> [pc |-> "count", kind |-> kind, query |-> query, page |-> page,
                             items |-> OffsetLimit(o, page, PAGE_SIZE)])
            /\ UNCHANGED reply
    /\ UNCHANGED <<fsmState, fsmData, users, books, confirmShown, chat>>

\* total = await session.scalar(count_stmt) or 0, and the result is returned
count_items(k) ==
    /\ k \in DOMAIN dbSessions
    /\ dbSessions[k].pc = "count"
    /\ outbox' = <<>>
    /\ LET task == dbSessions[k]
           total == Cardinality(PageRows(books, task.kind, task.query))
       IN reply' = PageReply(task.kind, task.query, task.page, PAGE_SIZE,
                             Result(task.items, total, TotalPages(total, PAGE_SIZE), 2))
    /\ dbSessions' = CloseSession(k)
    /\ UNCHANGED <<fsmState, fsmData, users, books, confirmShown, chat>>

\* The task of the one request in flight, and the queries that are searched
PageTask == 1
SnapshotQueries == {<<>>, <<"A">>}

NextSnapshot ==
    \/ \E kind \in PageKinds, query \in SnapshotQueries, page \in 1..MaxPage :
          select_items(PageTask, kind, query, page)
    \/ count_items(PageTask)
    \/ \E u \in UserIds, b \in 1..MaxCatalog : mark_book_sold(u, b, FALSE)

SpecSnapshot == InitCatalog /\ [][NextSnapshot]_vars

----------------------------------------------------------------------------
(* A seller who browses, lists the own books, asks for help and presses     *)
(* the browse, contact and mark-sold buttons while posting a listing        *)

\* A command and a menu text of browse and my-listings, and /help
FrameTexts == {<<"/browse">>, <<"My listings">>, <<"/help">>}

FrameInputs(stage) == TwoUserTexts(stage) \cup FrameTexts

NextFrame ==
    \/ \E t \in FrameInputs(fsmState[Seller]) : handle_help(Seller, t)
    \/ \E t \in FrameInputs(fsmState[Seller]) : handle_cancel(Seller, t)
    \/ \E t \in FrameInputs(fsmState[Seller]) : start_post_flow(Seller, t, FALSE)
    \/ \E t \in FrameInputs(fsmState[Seller]) : collect_title(Seller, t)
    \/ \E t \in FrameInputs(fsmState[Seller]) : collect_author(Seller, t)
    \/ \E t \in FrameInputs(fsmState[Seller]) : collect_condition(Seller, t)
    \/ \E t \in FrameInputs(fsmState[Seller]) : collect_price(Seller, t)
    \/ \E t \in FrameInputs(fsmState[Seller]) : collect_description(Seller, t)
    \/ \E t \in FrameInputs(fsmState[Seller]) : browse_books(Seller, t, FALSE)
    \/ \E t \in FrameInputs(fsmState[Seller]) : my_listings(Seller, t, FALSE)
    \/ finish_post_flow(Seller, "confirm", FALSE) /\ Len(books') <= MaxBooks
    \/ \E a \in {"browse", "mybooks"} : handle_main_menu(Seller, a, FALSE)
    \/ \E page \in 1..MaxPage : paginate_browse(Seller, page, FALSE)
    \/ \E b \in BookIds : contact_seller(Seller, b, FALSE, "ok")
    \/ \E b \in BookIds : contact_seller_from_search(Seller, b, FALSE, "ok")
    \/ \E b \in BookIds : mark_book_sold(Seller, b, FALSE)

SpecFrame == Init /\ [][NextFrame]_vars

----------------------------------------------------------------------------
(* A contact-seller event as a task: the listing is read in the session,    *)
(* and the answer to the buyer and the notification of the seller are sent  *)
(* after the session is closed, each after an await. Sellers mark listings  *)
(* sold in between.                                                         *)

\* async with session_scope(): get_book_by_id and ensure_user, then the test
\* if book is None or book.is_sold on the row that was read
contact_read(k, u, book_id) ==
    /\ k \notin DOMAIN dbSessions
    /\ outbox' = <<>>
    /\ IF book_id = 0
       THEN /\ reply' = Reply("missing_book")
            /\ UNCHANGED <<users, dbSessions>>
       ELSE /\ users' = ensure_user(users, u)
            /\ IF NoLongerAvailable(books, get_book_by_id(books, book_id))
               THEN /\ reply' = [Reply("no_longer_available") EXCEPT !.book_id = book_id]
                    /\ UNCHANGED dbSessions
               ELSE /\ dbSessions' = dbSessions @@
                         (k :> [u |-> u, pc |-> "answer", book |-> book_id])
                    /\ UNCHANGED reply
    /\ UNCHANGED <<fsmState, fsmData, books, confirmShown, chat>>

\* await query.message.answer(message): the seller's contact goes to the buyer
contact_answer(k) ==
    /\ k \in DOMAIN dbSessions
    /\ dbSessions[k].pc = "answer"
    /\ outbox' = <<Sent(dbSessions[k].u, "seller_contact", dbSessions[k].book, "ok")>>
    /\ dbSessions' = [dbSessions EXCEPT ![k].pc = "notify"]
    /\ UNCHANGED <<fsmState, fsmData, users, books, confirmShown, reply, chat>>

\* await notify_seller_of_interest(...) and query.answer("Contact sent!")
contact_notify(k, delivery) ==
    /\ k \in DOMAIN dbSessions
    /\ dbSessions[k].pc = "notify"
    /\ outbox' = notify_seller_of_interest(books, dbSessions[k].book, delivery)
    /\ reply' = IF delivery = "ok" \/ delivery \in Swallowed
                 THEN [Reply("contact_sent") EXCEPT !.book_id = dbSessions[k].book]
                 ELSE Raised
    /\ dbSessions' = CloseSession(k)
    /\ UNCHANGED <<fsmState, fsmData, users, books, confirmShown, chat>>

NextContactRace ==
    \/ \E k \in Tasks, u \in UserIds, b \in 0..MaxContactBooks : contact_read(k, u, b)
    \/ \E k \in Tasks : contact_answer(k)
    \/ \E k \in Tasks, delivery \in Deliveries : contact_notify(k, delivery)
    \/ \E u \in UserIds, b \in 1..MaxContactBooks : mark_book_sold(u, b, FALSE)

SpecContactRace == InitContact /\ [][NextContactRace]_vars

----------------------------------------------------------------------------
(* C31 *)

\* An answer to a browse request
IsBrowseAnswer(r) == r.kind \in {"browse_empty", "browse_page"}

\* C31: a browse request (command, menu text, menu button or Prev/Next)
\* against a catalog without unsold listings is answered with the
\* empty-state text and without any keyboard.
C31_EmptyCatalogNoAffordance ==
    [][IsBrowseAnswer(reply') /\ Unsold(books) = {}
         => reply'.kind = "browse_empty" /\ reply'.markup = None]_vars

\* A catalog whose only listings are sold has just been browsed
C31_Witness ==
    /\ books # <<>>
    /\ Unsold(books) = {}
    /\ reply.kind = "browse_empty"

----------------------------------------------------------------------------
(* C32 *)

\* C32: when a user at the condition stage presses the Cancel button of the
\* condition keyboard (its text arrives as a message), the user's stage
\* becomes none and the answer bag is cleared.
C32_CancelButtonCancels ==
    [][\A u \in UserIds :
         fsmState[u] = "condition" /\ Message(u, <<"Cancel">>)
            => fsmState'[u] = "none" /\ fsmData'[u] = EmptyBag]_vars

----------------------------------------------------------------------------
(* C33 *)

\* C33: pressing Prev/Next on a search result message returns a page of the
\* results of that message's own query, whatever the user did in between.
C33_PageOfOwnQuery ==
    [][\A message_query \in chat[Buyer], page \in 1..MaxPage :
         paginate_search_results(Buyer, message_query, page, FALSE)
            => reply'.kind = "search_results" /\ reply'.query = message_query]_vars

----------------------------------------------------------------------------
(* C34 *)

\* The listings of user u
ListingsOf(u) == {i \in 1..Len(books) : users[books[i].seller_id] = u}

\* C34: every user completes one flow; however the confirm events of the
\* user are interleaved, at most one listing of the user is created.
C34_OneListingPerFlow == \A u \in UserIds : Cardinality(ListingsOf(u)) <= 1

----------------------------------------------------------------------------
(* C35 *)

\* The answers of the handlers of /browse, /search and /mybooks
CommandAnswers(t) ==
    CASE t = <<"/browse">> -> {"browse_empty", "browse_page", "raised"}
      [] t = T_search -> {"ask_query"}
      [] t = <<"/mybooks">> -> {"no_listings", "my_listings", "raised"}

\* C35: /browse, /search and /mybooks received at a free-text stage of the
\* create-listing flow are answered by their own handlers and are not stored
\* as the answer of the stage.
C35_LateCommandsHandled ==
    [][\A u \in UserIds, t \in {<<"/browse">>, T_search, <<"/mybooks">>} :
         fsmState[u] \in EarlyStages /\ Message(u, t)
            => /\ reply'.kind \in CommandAnswers(t)
               /\ fsmData'[u] \in {fsmData[u], EmptyBag}]_vars

----------------------------------------------------------------------------
(* C36 *)

\* C36: the answer bag is consistent with the stage: a bag that holds a price
\* holds a title and a condition, and at the confirm stage the bag holds
\* title, author, condition, price and description; so no confirm action
\* finds the title or the condition missing.
C36_BagConsistentWithStage ==
    \A u \in UserIds :
        /\ "price" \in DOMAIN fsmData[u] => {"title", "condition"} \subseteq DOMAIN fsmData[u]
        /\ fsmState[u] = "confirm" =>
              {"title", "author", "condition", "price", "description"}
                  \subseteq DOMAIN fsmData[u]

\* A user is at the confirm stage and a listing has been created by a
\* confirm action
C36_Witness ==
    /\ \E u \in UserIds : fsmState[u] = "confirm" /\ "price" \in DOMAIN fsmData[u]
    /\ books # <<>>

----------------------------------------------------------------------------
(* C37 *)

\* C37: while other users mark listings sold, every browse or search result
\* holds min(perPage, max(0, total - (page-1)*perPage)) items for the total
\* it reports.
C37_ItemsMatchTotal ==
    reply.kind \in PageKinds =>
        Len(reply.items)
            = Min(reply.per_page, Max(0, reply.total - (reply.page - 1) * reply.per_page))

----------------------------------------------------------------------------
(* C38 *)

\* A price answer from which the Book row can be built: it parses to a
\* value that quantize_price rounds to a non-negative amount of cents
Persistable(text) ==
    Decimal(text) # None /\ quantize_price(Decimal(text)[1]) # None

\* C38: every price text the price stage accepts can be persisted, so a
\* flow that is at the confirm stage holds a price from which the listing
\* can be created.
C38_AcceptedPricePersistable ==
    /\ [][fsmState[Seller] = "price" /\ fsmState'[Seller] = "description"
            => Persistable(fsmData'[Seller]["price"])]_vars
    /\ [](fsmState[Seller] = "confirm" => Persistable(fsmData[Seller]["price"]))

----------------------------------------------------------------------------
(* C39 *)

\* A browse, browse-pagination, contact-seller, my-listings, mark-sold or
\* help event of user u, by command, menu text or button
FrameEvent(u) ==
    \/ \E t \in FrameTexts : Message(u, t)
    \/ \E a \in {"browse", "mybooks"} : handle_main_menu(u, a, FALSE)
    \/ \E page \in 1..MaxPage : paginate_browse(u, page, FALSE)
    \/ \E b \in BookIds : contact_seller(u, b, FALSE, "ok")
    \/ \E b \in BookIds : contact_seller_from_search(u, b, FALSE, "ok")
    \/ \E b \in BookIds : mark_book_sold(u, b, FALSE)

\* C39: browse, browse pagination, contact-seller, my-listings, mark-sold
\* and help events leave the stage and the answer bag of the acting user as
\* they were.
C39_SessionStateKept ==
    [][FrameEvent(Seller)
         => fsmState'[Seller] = fsmState[Seller] /\ fsmData'[Seller] = fsmData[Seller]]_vars

----------------------------------------------------------------------------
(* C40 *)

\* C40: whenever a notification of buyer interest has just been sent to a
\* seller, the listing it is about is unsold, however the contact-seller
\* event is interleaved with the seller's mark-sold event.
C40_NotifiedOnlyWhileUnsold ==
    \A i \in Interests(outbox) : ~books[outbox[i].about].is_sold

====
